---- MODULE Spec2Model ----
(***************************************************************************)
(* A model of protoviewer (src/unnamed/part_000): the cursor, the          *)
(* recursive-descent parser of the proto text format, and the tree         *)
(* transforms (filter_proto, format).                                      *)
(*                                                                         *)
(* A text is a sequence of one-character strings, positions are 0-based    *)
(* as in the JavaScript.  JavaScript values are encoded as tagged records: *)
(*   Str(s)   a string (s a sequence of characters)                        *)
(*   Obj(f)   a plain object: f is the sequence of its own properties in   *)
(*            for-in order, each [name, vals] with vals the array held     *)
(*   Lst(l)   an array of values                                           *)
(*   undefined                                                             *)
(* A parse result is [value, position, error]; error is null or an error   *)
(* string, encoded as [msg, at, ch, ctx] (the message, and the offset, the *)
(* character and the text window concatenated to it).  A call that ends in *)
(* a TypeError has no result: it is the result Thrown.                     *)
(***************************************************************************)
EXTENDS Integers, Sequences, FiniteSets

VARIABLES
    text,        \* the text in the input box
    pc,          \* what has been done with it so far
    call,        \* the parse function called last, and its arguments
    result,      \* what that call returned
    pred,        \* the should_filter_func given to filter_proto
    filtered,    \* filter_proto(result.value, pred)
    refiltered,  \* filter_proto(filtered, pred)
    formatted,   \* parsed.value: format(result.value)
    reparsed,    \* parse_proto(formatted, 0)
    info,        \* get_depth_info(result.value), as draw_proto asks for it
    spaced,      \* the text with whitespace or a comment put between two tokens
    tree,        \* the tree the transforms are called on
    xf,          \* the transform called last: its arguments and what it returned
    heap         \* the objects and arrays of the page, by address

vars ==
    <<text, pc, call, result, pred, filtered, refiltered, formatted, reparsed,
      info, spaced, tree, xf, heap>>

(* ------------------------------ bounds -------------------------------- *)

\* longest text typed character by character
MaxLen == 3

(* ---------------------------- characters ------------------------------ *)

\* the characters a text of the model is typed from
Alphabet == {"a", "b", "1", ":", "{", "}", "[", "]", ",", " ", "\"", "@"}

\* /\s/ over the characters of the model
Whitespace == {" ", "\n", "\t"}

Digits == {"0", "1", "2", "3", "4", "5", "6", "7", "8", "9"}

Letters ==
    {"a", "b", "c", "d", "e", "f", "g", "h", "i", "j", "k", "l", "m", "n", "o",
     "p", "q", "r", "s", "t", "u", "v", "w", "x", "y", "z",
     "A", "B", "C", "D", "E", "F", "G", "H", "I", "J", "K", "L", "M", "N", "O",
     "P", "Q", "R", "S", "T", "U", "V", "W", "X", "Y", "Z"}

\* /\w/
WordChars == Letters \cup Digits \cup {"_"}

\* /[\w\.\-\+\/]/
ValRegexp == WordChars \cup {".", "-", "+", "/"}

\* /[\w\.\[\]\-\+\/]/
VarRegexp == ValRegexp \cup {"[", "]"}

Min(a, b) == IF a < b THEN a ELSE b
Max(a, b) == IF a > b THEN a ELSE b

\* text.charAt(ii): the empty string outside the text
CharAt(t, ii) == IF ii >= 0 /\ ii < Len(t) THEN t[ii + 1] ELSE ""

\* text.substr(start, n): a negative start counts from the end of the text
Substr(t, start, n) ==
    LET s == IF start < 0 THEN Max(Len(t) + start, 0) ELSE Min(start, Len(t))
        e == Min(s + Max(n, 0), Len(t))
    IN  SubSeq(t, s + 1, e)

(* ------------------------------ values -------------------------------- *)

Str(s) == [k |-> "s", s |-> s]
Obj(f) == [k |-> "o", f |-> f]
Lst(l) == [k |-> "l", l |-> l]
undefined == [k |-> "u"]

null == [msg |-> "null", at |-> -1, ch |-> <<>>, ctx |-> <<>>]

\* an error string without an offset ("Missing Closing Brace")
PlainError(message) == [msg |-> message, at |-> -1, ch |-> <<>>, ctx |-> <<>>]

\* an error string that ends in the offset ("No end of string found: " + ii)
ErrorAt(message, ii) == [msg |-> message, at |-> ii, ch |-> <<>>, ctx |-> <<>>]

\* an error string that ends in a character of the text, or in nothing past
\* the end of the text ("Invalid string, doesn't start with quote: " + quote)
ErrorChar(message, c) ==
    [msg |-> message, at |-> -1, ch |-> IF c = "" THEN <<>> ELSE <<c>>,
     ctx |-> <<>>]

\* the default width of make_error's text window
ErrorWindow == 10

\* message + " at: " + ii + " = " + text.charAt(ii) + " (" + window + ")"
make_error(message, t, ii) ==
    [msg |-> message, at |-> ii,
     ch |-> IF CharAt(t, ii) = "" THEN <<>> ELSE <<CharAt(t, ii)>>,
     ctx |-> Substr(t, ii - ErrorWindow, ErrorWindow * 2)]

is_defined(obj) == obj.k # "u"
is_object(obj) == obj.k \in {"o", "l"}
is_array(obj) == obj.k = "l"
is_sub_proto(obj) == is_object(obj) /\ ~is_array(obj)

(* ------------------------------ cursor -------------------------------- *)

RECURSIVE ScanWhile(_, _, _)
\* the for loop of consume_regexp: the first jj >= ii that ends the run
ScanWhile(t, jj, class) ==
    IF jj < Len(t) /\ CharAt(t, jj) \in class
    THEN ScanWhile(t, jj + 1, class)
    ELSE jj

consume_regexp(t, ii, class) ==
    LET jj == ScanWhile(t, ii, class)
    IN  [value |-> Str(Substr(t, ii, jj - ii)), position |-> jj, error |-> null]

consume_whitespace(t, ii) == consume_regexp(t, ii, Whitespace).position

RECURSIVE SkipLine_NoEndCheck(_, _)
\* while (text.charAt(ii++) != "\n" && ii <= text.length) {}: the loop that
\* counts the character it looks at before it looks at the end of the text
SkipLine_NoEndCheck(t, ii) ==
    IF ii < Len(t)
    THEN IF CharAt(t, ii) # "\n" THEN SkipLine_NoEndCheck(t, ii + 1) ELSE ii + 1
    ELSE ii + 1

RECURSIVE SkipLine(_, _)
\* while (ii < text.length && text.charAt(ii++) != "\n") {}
SkipLine(t, ii) ==
    IF ii < Len(t)
    THEN IF CharAt(t, ii) # "\n" THEN SkipLine(t, ii + 1) ELSE ii + 1
    ELSE ii

RECURSIVE CommentLoop_NoWhitespace(_, _)
\* the outer loop without the consume_whitespace that ends its body
CommentLoop_NoWhitespace(t, ii) ==
    IF ii < Len(t) /\ CharAt(t, ii) = "#"
    THEN CommentLoop_NoWhitespace(t, SkipLine(t, ii))
    ELSE ii

RECURSIVE CommentLoop(_, _)
CommentLoop(t, ii) ==
    IF ii < Len(t) /\ CharAt(t, ii) = "#"
    THEN CommentLoop(t, consume_whitespace(t, SkipLine(t, ii)))
    ELSE ii

consume_comments(t, ii) == CommentLoop(t, consume_whitespace(t, ii))

(* --------------------------- object fields ---------------------------- *)

DigitVal(c) ==
    CASE c = "0" -> 0 [] c = "1" -> 1 [] c = "2" -> 2 [] c = "3" -> 3
      [] c = "4" -> 4 [] c = "5" -> 5 [] c = "6" -> 6 [] c = "7" -> 7
      [] c = "8" -> 8 [] c = "9" -> 9

RECURSIVE StrNum(_)
StrNum(s) ==
    IF s = <<>> THEN 0
    ELSE StrNum(SubSeq(s, 1, Len(s) - 1)) * 10 + DigitVal(s[Len(s)])

\* a property name that is a canonical array index: own properties with
\* such names come first in for-in order, in ascending numeric order (the
\* largest array index, 2^32 - 2, has ten digits: every canonical numeral of
\* nine digits or fewer is one)
IsArrayIndex(name) ==
    /\ Len(name) > 0
    /\ Len(name) <= 9
    /\ \A i \in 1..Len(name) : name[i] \in Digits
    /\ (Len(name) > 1 => name[1] # "0")

HasField(f, name) == \E i \in 1..Len(f) : f[i].name = name

FieldIndex(f, name) == CHOOSE i \in 1..Len(f) : f[i].name = name

GetField(f, name) == f[FieldIndex(f, name)].vals

\* where a new own property lands in for-in order
InsertAt(f, name) ==
    IF IsArrayIndex(name)
    THEN 1 + Cardinality({i \in 1..Len(f) :
                IsArrayIndex(f[i].name) /\ StrNum(f[i].name) < StrNum(name)})
    ELSE Len(f) + 1

\* obj[name] = vals
SetField(f, name, vals) ==
    IF HasField(f, name)
    THEN [f EXCEPT ![FieldIndex(f, name)].vals = vals]
    ELSE LET at == InsertAt(f, name)
         IN  SubSeq(f, 1, at - 1) \o << [name |-> name, vals |-> vals] >> \o
             SubSeq(f, at, Len(f))

\* the property names every object literal {} inherits from Object.prototype
ObjectPrototype ==
    { <<"c","o","n","s","t","r","u","c","t","o","r">>,
      <<"h","a","s","O","w","n","P","r","o","p","e","r","t","y">>,
      <<"i","s","P","r","o","t","o","t","y","p","e","O","f">>,
      <<"p","r","o","p","e","r","t","y","I","s","E","n","u","m","e","r","a","b","l","e">>,
      <<"t","o","L","o","c","a","l","e","S","t","r","i","n","g">>,
      <<"t","o","S","t","r","i","n","g">>,
      <<"v","a","l","u","e","O","f">>,
      <<"_","_","p","r","o","t","o","_","_">>,
      <<"_","_","d","e","f","i","n","e","G","e","t","t","e","r","_","_">>,
      <<"_","_","d","e","f","i","n","e","S","e","t","t","e","r","_","_">>,
      <<"_","_","l","o","o","k","u","p","G","e","t","t","e","r","_","_">>,
      <<"_","_","l","o","o","k","u","p","S","e","t","t","e","r","_","_">> }

\* name in obj, for an object made by {}
In(f, name) == HasField(f, name) \/ name \in ObjectPrototype

\* obj[name].push(v) ends in a TypeError: obj[name] is an inherited property,
\* none of which has a push
PushThrows(f, name) == ~HasField(f, name) /\ name \in ObjectPrototype

\* if (!(name in obj)) { obj[name] = []; }  obj[name].push(v)
PushField(f, name, v) ==
    LET g == IF In(f, name) THEN f ELSE SetField(f, name, <<>>)
    IN  SetField(g, name, Append(GetField(g, name), v))

(* ------------------------------ filters ------------------------------- *)

\* filter_func: absent, or a function of the field name, given by the names
\* it answers true for
NoFilter == [defined |-> FALSE, drop |-> {}]
DropNames(S) == [defined |-> TRUE, drop |-> S]
Apply(ff, name) == name \in ff.drop

(* ------------------------------ parser -------------------------------- *)
(* Every result below carries, beside the three fields of the code, the    *)
(* history field `failed`: whether this call, or a call nested in it,      *)
(* returned a non-null error.  No code reads it.  `thrown` tells the result *)
(* Thrown, which every caller passes on, from the results returned.        *)

Quotes == {"\"", "'"}

Result(value, position, error, failed) ==
    [value |-> value, position |-> position, error |-> error, failed |-> failed,
     thrown |-> FALSE]

TypeError == PlainError("TypeError")

\* the call did not return: a TypeError left it
Thrown ==
    [value |-> undefined, position |-> 0, error |-> TypeError, failed |-> TRUE,
     thrown |-> TRUE]

RECURSIVE StringLoop_NoEscape(_, _, _, _, _)
\* the for loop without its escape flag: it ends at the first quote
StringLoop_NoEscape(t, jj, escape, quote, value) ==
    IF jj < Len(t)
    THEN LET v == Append(value, CharAt(t, jj))
         IN  IF CharAt(t, jj) = quote
             THEN [jj |-> jj, value |-> v]
             ELSE StringLoop_NoEscape(t, jj + 1, FALSE, quote, v)
    ELSE [jj |-> jj, value |-> value]

RECURSIVE StringLoop(_, _, _, _, _)
\* the for loop of parse_string: [jj, value] when it ends
StringLoop(t, jj, escape, quote, value) ==
    IF jj < Len(t)
    THEN LET v == Append(value, CharAt(t, jj))
         IN  IF ~escape /\ CharAt(t, jj) = quote
             THEN [jj |-> jj, value |-> v]
             ELSE StringLoop(t, jj + 1, (~escape /\ CharAt(t, jj) = "\\"), quote, v)
    ELSE [jj |-> jj, value |-> value]

\* parse_string with the value begun empty, not with the opening quote
parse_string_NoOpeningQuote(t, ii) ==
    LET quote == CharAt(t, ii)
    IN  IF quote \notin Quotes
        THEN Result(Str(<<>>), ii,
                 ErrorChar("Invalid string, doesn't start with quote: ", quote), TRUE)
        ELSE LET loop == StringLoop(t, ii + 1, FALSE, quote, <<>>)
                 jj == loop.jj
             IN  IF jj >= Len(t)
                 THEN Result(Str(loop.value), jj,
                          ErrorAt("No end of string found: ", ii), TRUE)
                 ELSE IF CharAt(t, jj) = quote
                 THEN Result(Str(loop.value), consume_comments(t, jj + 1), null, FALSE)
                 ELSE Result(Str(loop.value), jj, null, FALSE)

parse_string(t, ii) ==
    LET quote == CharAt(t, ii)
    IN  IF quote \notin Quotes
        THEN Result(Str(<<>>), ii,
                 ErrorChar("Invalid string, doesn't start with quote: ", quote), TRUE)
        ELSE LET loop == StringLoop(t, ii + 1, FALSE, quote, <<quote>>)
                 jj == loop.jj
             IN  IF jj >= Len(t)
                 THEN Result(Str(loop.value), jj,
                          ErrorAt("No end of string found: ", ii), TRUE)
                 ELSE IF CharAt(t, jj) = quote
                 THEN Result(Str(loop.value), consume_comments(t, jj + 1), null, FALSE)
                 ELSE Result(Str(loop.value), jj, null, FALSE)

parse_token(t, ii, should_include_brackets) ==
    LET res == IF CharAt(t, ii) \in Quotes
               THEN parse_string(t, ii)
               ELSE LET r == consume_regexp(t, ii,
                                 IF should_include_brackets THEN VarRegexp
                                 ELSE ValRegexp)
                    IN  Result(r.value, r.position, null, FALSE)
    IN  IF ~is_defined(res.value)
        THEN Result(res.value, res.position,
                 make_error("Error parsing token", t, ii), TRUE)
        ELSE res

RECURSIVE parse_proto(_, _, _)
RECURSIVE parse_body(_, _, _)
RECURSIVE BodyLoop(_, _, _, _)
RECURSIVE parse_value(_, _, _)
RECURSIVE parse_list(_, _, _)
RECURSIVE ListLoop(_, _, _, _)

\* parse_proto after its call of parse_body: res is what parse_body
\* returned
ProtoEnd(t, has_braces, res) ==
    IF res.error # null THEN res
    ELSE IF has_braces
    THEN LET i2 == consume_comments(t, res.position)
             closed == CharAt(t, i2) = "}"
         IN  Result(res.value,
                 consume_comments(t, IF closed THEN i2 + 1 ELSE i2),
                 IF closed THEN null ELSE PlainError("Missing Closing Brace"),
                 res.failed \/ ~closed)
    ELSE res

\* parse_proto from the position after the leading comments
ProtoAt(t, ii, ff) ==
    IF CharAt(t, ii) = "{"
    THEN ProtoEnd(t, TRUE, parse_body(t, ii + 1, ff))
    ELSE ProtoEnd(t, FALSE, parse_body(t, ii, ff))

parse_proto(t, ii0, ff) == ProtoAt(t, consume_comments(t, ii0), ff)

parse_body(t, ii, ff) == BodyLoop(t, ii, <<>>, ff)

\* the condition of the while loop of parse_body
BodyCond(t, ii) == Len(t) > ii /\ CharAt(t, ii) # "}"

\* what one iteration of the while loop of parse_body leaves: result.value
\* and ii after it, the error it set, and whether it left the loop with break
Step(value, position, error, failed, brk) ==
    [value |-> value, position |-> position, error |-> error, failed |-> failed,
     thrown |-> FALSE, brk |-> brk]

StepThrown ==
    [value |-> undefined, position |-> 0, error |-> TypeError, failed |-> TRUE,
     thrown |-> TRUE, brk |-> TRUE]

\* an iteration of the loop of parse_body from the store of the value on: f
\* the fields of result.value so far, name and value the results of
\* parse_token and parse_value, i4 where the value starts
BodyStore(t, old_ii, f, ff, name, i4, value) ==
    LET i5 == IF value.position # 0 THEN value.position ELSE i4
        i6 == consume_comments(t, i5)
        stored == ~ff.defined \/ ~Apply(ff, name.value.s)
        g == IF stored THEN PushField(f, name.value.s, value.value) ELSE f
        i7 == IF CharAt(t, i6) = "," THEN consume_comments(t, i6 + 1) ELSE i6
    IN  IF value.thrown \/ (stored /\ PushThrows(f, name.value.s))
        THEN StepThrown
        ELSE IF value.error # null
        THEN Step(Obj(g), i6, value.error, TRUE, TRUE)
        ELSE IF i7 = old_ii
        THEN Step(Obj(g), i7,
                 make_error("Internal error!  Infinite loop", t, i7), TRUE, TRUE)
        ELSE Step(Obj(g), i7, null, name.failed \/ value.failed, FALSE)

\* an iteration of the loop of parse_body from the call of parse_value on
BodyValue(t, old_ii, f, ff, name, i4) ==
    BodyStore(t, old_ii, f, ff, name, i4, parse_value(t, i4, ff))

\* where the value starts, after the name that ends at position ii: past
\* comments, an optional colon, and comments
ValueAt(t, ii) ==
    LET i2 == consume_comments(t, ii)
    IN  consume_comments(t, IF CharAt(t, i2) = ":" THEN i2 + 1 ELSE i2)

\* an iteration of the loop of parse_body from the check of the name on
BodyName(t, old_ii, i1, f, ff, name) ==
    IF name.error # null
    THEN Step(Obj(f), i1, name.error, TRUE, TRUE)
    ELSE BodyValue(t, old_ii, f, ff, name, ValueAt(t, name.position))

\* an iteration of the loop of parse_body from the call of parse_token on
BodyToken(t, old_ii, i1, f, ff) ==
    BodyName(t, old_ii, i1, f, ff, parse_token(t, i1, TRUE))

\* one iteration of the while loop of parse_body, f the fields of
\* result.value so far
BodyStep(t, old_ii, f, ff) == BodyToken(t, old_ii, consume_comments(t, old_ii), f, ff)

\* the result of parse_body: s the iteration that left the loop, or the
\* last before r, the result of the iterations after it
BodyRest(s, r) ==
    IF r.thrown THEN Thrown
    ELSE Result(r.value, r.position, r.error, r.failed \/ s.failed)

\* the loop of parse_body after the iteration s
BodyNext(t, ff, s) ==
    IF s.thrown THEN Thrown
    ELSE IF s.brk THEN Result(s.value, s.position, s.error, s.failed)
    ELSE BodyRest(s, BodyLoop(t, s.position, s.value.f, ff))

\* the while loop of parse_body
BodyLoop(t, ii, f, ff) ==
    IF ~BodyCond(t, ii)
    THEN Result(Obj(f), ii, null, FALSE)
    ELSE BodyNext(t, ff, BodyStep(t, ii, f, ff))

parse_value(t, ii, ff) ==
    IF CharAt(t, ii) = "{" THEN parse_proto(t, ii, ff)
    ELSE IF CharAt(t, ii) = "[" THEN parse_list(t, ii, ff)
    ELSE parse_token(t, ii, FALSE)

\* the end of parse_list without its check of text.length <= ii
ListEnd_NoEndError(t, ii, l, err) ==
    IF Len(t) > ii /\ CharAt(t, ii) = "]"
    THEN Result(Lst(l), consume_comments(t, ii + 1), err, err # null)
    ELSE Result(Lst(l), ii, err, err # null)

\* the end of parse_list, after its loop
ListEnd(t, ii, l, err) ==
    IF Len(t) <= ii
    THEN Result(Lst(l), ii, PlainError("No end of list found: "), TRUE)
    ELSE IF CharAt(t, ii) = "]"
    THEN Result(Lst(l), consume_comments(t, ii + 1), err, err # null)
    ELSE Result(Lst(l), ii, err, err # null)

\* the condition of the while loop of parse_list
ListCond(t, ii) == Len(t) > ii /\ CharAt(t, ii) # "]"

parse_list(t, ii, ff) ==
    ListLoop(t, IF CharAt(t, ii) = "[" THEN consume_comments(t, ii + 1) ELSE ii,
             <<>>, ff)

\* the result of parse_list: item the element parsed, r the result of the
\* loop after it
ListRest(item, r) ==
    IF r.thrown THEN Thrown
    ELSE Result(r.value, r.position, r.error, r.failed \/ item.failed)

\* parse_list without its check of old_ii == ii: an iteration that did not
\* advance ends the loop without an error
ListNext_NoStallError(t, old_ii, l, ff, item, ii) ==
    IF old_ii = ii
    THEN ListRest(item, ListEnd(t, ii, l, null))
    ELSE ListRest(item, ListLoop(t, ii, l, ff))

\* the loop of parse_list after the element item was pushed: l the elements
\* of result.value, ii the position after the element and an optional comma
ListNext(t, old_ii, l, ff, item, ii) ==
    IF old_ii = ii
    THEN ListRest(item,
             ListEnd(t, ii, l,
                 make_error("Error parsing list, unrecognized character", t, ii)))
    ELSE ListRest(item, ListLoop(t, ii, l, ff))

\* where the next element starts, after the element that ends at position
\* ii: past comments, an optional comma, and comments
NextItemAt(t, ii) ==
    LET i1 == consume_comments(t, ii)
    IN  IF Len(t) > i1 /\ CharAt(t, i1) = ","
        THEN consume_comments(t, i1 + 1) ELSE i1

\* an iteration of the loop of parse_list from the check of the element on
ListItem(t, old_ii, l, ff, item) ==
    IF item.thrown THEN Thrown
    ELSE IF item.error # null
    THEN Result(Lst(l), item.position, null, TRUE)
    ELSE ListNext(t, old_ii, Append(l, item.value), ff, item,
             NextItemAt(t, item.position))

\* the while loop of parse_list, l the elements of result.value so far
ListLoop(t, old_ii, l, ff) ==
    IF ~ListCond(t, old_ii)
    THEN ListEnd(t, old_ii, l, null)
    ELSE ListItem(t, old_ii, l, ff, parse_value(t, old_ii, ff))

(* -------------------------- property access ------------------------- *)
(* The fields of a tree hold arrays: [name, vals] is the property `name`    *)
(* with the array whose elements are vals.  A property that holds anything  *)
(* else (convert can make one) is [name, val].                              *)

\* obj[name], for the property p of obj
Value(p) == IF "vals" \in DOMAIN p THEN Lst(p.vals) ELSE p.val

\* the property `name` that holds v
Prop(name, v) ==
    IF v.k = "l" THEN [name |-> name, vals |-> v.l] ELSE [name |-> name, val |-> v]

DigitChars == <<"0", "1", "2", "3", "4", "5", "6", "7", "8", "9">>

RECURSIVE NumStr(_)
\* "" + n
NumStr(n) ==
    IF n < 10 THEN <<DigitChars[n + 1]>>
    ELSE NumStr(n \div 10) \o <<DigitChars[(n % 10) + 1]>>

\* the properties for-in meets: the fields of an object, the indices of an
\* array
Props(v) ==
    IF v.k = "o" THEN v.f
    ELSE [i \in 1..Len(v.l) |-> Prop(NumStr(i - 1), v.l[i])]

\* v[0], ..., v[v.length - 1]: the elements of an array, the characters of a
\* string; an object has no length and the loop over it does not run (no
\* field of the model is named length)
Elements(v) ==
    IF v.k = "l" THEN v.l
    ELSE IF v.k = "s" THEN [i \in 1..Len(v.s) |-> Str(<<v.s[i]>>)]
    ELSE <<>>

\* obj[name] = v
SetProp(f, name, v) ==
    IF HasField(f, name)
    THEN [f EXCEPT ![FieldIndex(f, name)] = Prop(name, v)]
    ELSE LET at == InsertAt(f, name)
         IN  SubSeq(f, 1, at - 1) \o <<Prop(name, v)>> \o SubSeq(f, at, Len(f))

(* ----------------------------- transforms ---------------------------- *)

RECURSIVE filter_proto(_, _)
RECURSIVE FilterFields(_, _, _, _)

\* the inner for loop of filter_proto: new_proto[key] after it
FilterList(vals, should_filter_func) ==
    [ii \in 1..Len(vals) |->
        IF is_sub_proto(vals[ii])
        THEN filter_proto(vals[ii], should_filter_func)
        ELSE vals[ii]]

\* the for-in loop of filter_proto from the k-th field on, new the fields of
\* new_proto so far
FilterFields(f, k, new, should_filter_func) ==
    IF k > Len(f) THEN new
    ELSE IF Apply(should_filter_func, f[k].name)
    THEN FilterFields(f, k + 1, new, should_filter_func)
    ELSE FilterFields(f, k + 1,
             SetField(new, f[k].name,
                 FilterList(Elements(Value(f[k])), should_filter_func)),
             should_filter_func)

\* a field all of whose elements are objects without fields
OnlyEmptyObjects(x) ==
    Len(x.vals) > 0 /\ \A i \in 1..Len(x.vals) : x.vals[i] = Obj(<<>>)

\* filter_proto that also leaves out the fields that hold only empty objects
filter_proto_PrunesEmpty(proto, should_filter_func) ==
    LET keep(x) == ~OnlyEmptyObjects(x)
    IN  Obj(FilterFields(SelectSeq(proto.f, keep), 1, <<>>, should_filter_func))

filter_proto(proto, should_filter_func) ==
    Obj(FilterFields(proto.f, 1, <<>>, should_filter_func))

RECURSIVE toString(_)
RECURSIVE Join(_, _)

\* "" + v: a string is itself, an array its elements joined with commas, any
\* other object "[object Object]"
toString(v) ==
    IF v.k = "s" THEN v.s
    ELSE IF v.k = "l" THEN Join(v.l, 1)
    ELSE <<"[", "o", "b", "j", "e", "c", "t", " ", "O", "b", "j", "e", "c", "t", "]">>

Join(l, k) ==
    IF k > Len(l) THEN <<>>
    ELSE toString(l[k]) \o (IF k < Len(l) THEN <<",">> ELSE <<>>) \o Join(l, k + 1)

RECURSIVE FormatArray(_, _)
\* the for loop of format over the elements of an array element
FormatArray(l, jj) ==
    IF jj > Len(l) THEN <<>>
    ELSE toString(l[jj]) \o (IF jj < Len(l) THEN <<",", " ">> ELSE <<>>) \o
         FormatArray(l, jj + 1)

RECURSIVE format(_, _, _)
RECURSIVE FormatElems(_, _, _, _, _)
RECURSIVE FormatFields(_, _, _, _)

\* the for loop of format over the elements of one field, from the ii-th on
FormatElems(key, vals, ii, flat, indent) ==
    IF ii > Len(vals) THEN <<>>
    ELSE
    LET e == vals[ii]
        body == IF is_array(e)
                THEN <<":", " ", "[", " ">> \o FormatArray(e.l, 1) \o <<" ", "]">>
                ELSE IF is_object(e)
                THEN <<" ", "{", " ">> \o (IF ~flat THEN <<"\n">> ELSE <<>>) \o
                     format(e, flat, indent \o <<" ", " ">>) \o
                     (IF ~flat THEN indent ELSE <<>>) \o <<" ", "}">>
                ELSE <<":", " ">> \o e.s
        sep == IF ii < Len(vals)
               THEN (IF ~flat THEN <<"\n">> ELSE <<" ">>) ELSE <<>>
    IN  (IF ~flat THEN indent ELSE <<>>) \o key \o body \o sep \o
        FormatElems(key, vals, ii + 1, flat, indent)

\* the for-in loop of format from the k-th field on
FormatFields(f, k, flat, indent) ==
    IF k > Len(f) THEN <<>>
    ELSE FormatElems(f[k].name, Elements(Value(f[k])), 1, flat, indent) \o
         (IF ~flat THEN <<"\n">> ELSE <<" ">>) \o
         FormatFields(f, k + 1, flat, indent)

format(proto, flat, indent) == FormatFields(proto.f, 1, flat, indent)

\* a transform did not return: a TypeError left it
Raised == [k |-> "x"]

\* should_keep_slice_func: a function of the field name and the leaf, given
\* by the names and the leaves it answers true for
KeepFunc(names, leaves) == [names |-> names, leaves |-> leaves]
ApplyKeep(kf, name, val) == name \in kf.names \/ val \in kf.leaves

RECURSIVE proto_slice(_, _)
RECURSIVE SliceElems(_, _, _, _, _)
RECURSIVE SliceFields(_, _, _, _)

\* if (!(key in new_proto)) { new_proto[key] = []; }  new_proto[key].push(v)
SlicePush(new, key, v) ==
    IF new = Raised \/ v = Raised THEN Raised
    ELSE IF PushThrows(new.f, key) THEN Raised
    ELSE Obj(PushField(new.f, key, v))

\* the inner for loop of proto_slice from the ii-th element of proto[key] on,
\* new the new_proto so far
SliceElems(new, key, elems, ii, should_keep_slice_func) ==
    IF ii > Len(elems) \/ new = Raised THEN new
    ELSE IF is_sub_proto(elems[ii])
    THEN SliceElems(
             SlicePush(new, key, proto_slice(elems[ii], should_keep_slice_func)),
             key, elems, ii + 1, should_keep_slice_func)
    ELSE IF ApplyKeep(should_keep_slice_func, key, elems[ii])
    THEN SliceElems(SlicePush(new, key, elems[ii]),
             key, elems, ii + 1, should_keep_slice_func)
    ELSE SliceElems(new, key, elems, ii + 1, should_keep_slice_func)

\* the for-in loop of proto_slice from the k-th field on
SliceFields(props, k, new, should_keep_slice_func) ==
    IF k > Len(props) THEN new
    ELSE SliceFields(props, k + 1,
             SliceElems(new, props[k].name, Elements(Value(props[k])), 1,
                 should_keep_slice_func),
             should_keep_slice_func)

proto_slice(proto, should_keep_slice_func) ==
    SliceFields(Props(proto), 1, Obj(<<>>), should_keep_slice_func)

(* A path table is an object whose keys are field names: paths[key] is the  *)
(* pair of the new name, or null, and the path table of the level below.    *)

\* the null of a path, where a new name can stand
nullName == [k |-> "n"]

\* a path table with the entries e, each [key, to, sub]
Paths(e) == [defined |-> TRUE, e |-> e]

\* no path table: what paths[key][1] is for a key that paths only inherits
undefinedPaths == [defined |-> FALSE, e |-> <<>>]

HasPath(paths, key) == \E i \in 1..Len(paths.e) : paths.e[i].key = key

\* key in paths, for a path table written as an object literal
InPaths(paths, key) == HasPath(paths, key) \/ key \in ObjectPrototype

PathOf(paths, key) ==
    paths.e[CHOOSE i \in 1..Len(paths.e) : paths.e[i].key = key]

\* paths[key][0]: the [0] of an inherited property is undefined, and as a
\* property name undefined reads "undefined"
NewName(paths, key) ==
    IF HasPath(paths, key) THEN PathOf(paths, key).to
    ELSE Str(<<"u", "n", "d", "e", "f", "i", "n", "e", "d">>)

\* paths[key][1]
SubPaths(paths, key) ==
    IF HasPath(paths, key) THEN PathOf(paths, key).sub ELSE undefinedPaths

RECURSIVE convert(_, _)
RECURSIVE convert_list(_, _)
RECURSIVE ConvertFields(_, _, _, _)

\* for (subkey in newlist[ii]) { retval[subkey] = newlist[ii][subkey]; }
RECURSIVE SpliceProps(_, _, _)
SpliceProps(retval, props, k) ==
    IF k > Len(props) THEN retval
    ELSE SpliceProps(SetProp(retval, props[k].name, Value(props[k])), props, k + 1)

\* the for loop of convert over newlist, from its ii-th element on: the
\* properties of an object are installed in retval, anything else is dropped
RECURSIVE SpliceList(_, _, _)
SpliceList(retval, newlist, ii) ==
    IF ii > Len(newlist) THEN retval
    ELSE SpliceList(
             IF is_object(newlist[ii])
             THEN SpliceProps(retval, Props(newlist[ii]), 1)
             ELSE retval,
             newlist, ii + 1)

\* one iteration of the for-in loop of convert for a key of paths: newlist is
\* convert_list(proto[key], paths[key][1])
ConvertMapped(retval, to, newlist) ==
    IF newlist = Raised THEN Raised
    ELSE IF to # nullName THEN Obj(SetProp(retval.f, to.s, newlist))
    ELSE Obj(SpliceList(retval.f, newlist.l, 1))

\* the for-in loop of convert from the k-th property on
ConvertFields(props, k, retval, paths) ==
    IF k > Len(props) \/ retval = Raised THEN retval
    ELSE IF ~paths.defined THEN Raised
    ELSE IF InPaths(paths, props[k].name)
    THEN ConvertFields(props, k + 1,
             ConvertMapped(retval, NewName(paths, props[k].name),
                 convert_list(Value(props[k]), SubPaths(paths, props[k].name))),
             paths)
    ELSE ConvertFields(props, k + 1,
             Obj(SetProp(retval.f, props[k].name, Value(props[k]))), paths)

convert(proto, paths) == ConvertFields(Props(proto), 1, Obj(<<>>), paths)

\* retval of convert_list, given the elements converted
ConvertedList(elems) ==
    IF \E ii \in 1..Len(elems) : elems[ii] = Raised THEN Raised ELSE Lst(elems)

convert_list(list, paths) ==
    ConvertedList([ii \in 1..Len(Elements(list)) |->
        IF is_object(Elements(list)[ii]) THEN convert(Elements(list)[ii], paths)
        ELSE Elements(list)[ii]])

(* ----------------------------- tree info ------------------------------ *)
(* make_proto_info with the one attribute of get_depth_info, depth: an info *)
(* is [values, data, total], data and total those of depth.                 *)

\* the leaf_function of depth
leaf_function(name, ii, value) == 0

RECURSIVE AggregatorLoop_Sum(_, _, _, _)
\* the for loop of an aggregator that adds the infos up: depth += val
AggregatorLoop_Sum(name, infos, ii, depth) ==
    IF ii > Len(infos) THEN depth
    ELSE LET val == IF name = "map" THEN infos[ii] + 1 ELSE infos[ii]
         IN  AggregatorLoop_Sum(name, infos, ii + 1, depth + val)

RECURSIVE AggregatorLoop(_, _, _, _)
\* the for loop of the aggregator of depth, from the ii-th info on
AggregatorLoop(name, infos, ii, depth) ==
    IF ii > Len(infos) THEN depth
    ELSE LET val == IF name = "map" THEN infos[ii] + 1 ELSE infos[ii]
         IN  AggregatorLoop(name, infos, ii + 1, IF val > depth THEN val ELSE depth)

\* the aggregator of depth with no step added for "map"
aggregator_NoMapStep(name, infos) == AggregatorLoop("list", infos, 1, 0)

\* the aggregator of depth
aggregator(name, infos) == AggregatorLoop(name, infos, 1, 0)

RECURSIVE make_proto_info(_)

\* proto_info.values[name].values: an info for an object, {depth: 0} for a
\* leaf
InfoValues(name, elems) ==
    [ii \in 1..Len(elems) |->
        IF is_object(elems[ii]) THEN make_proto_info(elems[ii])
        ELSE [depth |-> leaf_function(name, ii - 1, elems[ii])]]

\* proto_info.values[name], given its values
ListInfo(name, elems, values) ==
    LET data == [ii \in 1..Len(elems) |->
                    IF is_object(elems[ii]) THEN values[ii].total
                    ELSE values[ii].depth]
    IN  [name |-> name, values |-> values, data |-> data,
         total |-> aggregator("list", data)]

\* proto_info, given the infos of its fields
MapInfo(values) ==
    LET data == [k \in 1..Len(values) |-> values[k].total]
    IN  [values |-> values, data |-> data, total |-> aggregator("map", data)]

\* the for-in loop of make_proto_info
InfoFields(props) ==
    [k \in 1..Len(props) |->
        ListInfo(props[k].name, Elements(Value(props[k])),
                 InfoValues(props[k].name, Elements(Value(props[k]))))]

make_proto_info(proto) == MapInfo(InfoFields(Props(proto)))

get_depth_info(proto) == make_proto_info(proto)

(* make_proto_info with any attributes: an attribute is [name, kind,       *)
(* pattern], its two functions those of get_depth_info (kind "depth") or   *)
(* those of get_expand_info for the pattern (kind "expand"); data and      *)
(* total are sequences in the for-in order of the attributes              *)

\* match(str, pattern) of get_expand_info
match(str, pattern) == str = pattern

\* attributes[attr].leaf_function(name, ii, value)
LeafOf(a, name, ii, value) ==
    IF a.kind = "depth" THEN leaf_function(name, ii, value)
    ELSE match(name, a.pattern) \/ (value.k = "s" /\ match(value.s, a.pattern))

\* attributes[attr].aggregator(name, infos), name "list" or "map"
AggregateOf(a, name, infos) ==
    IF a.kind = "depth" THEN aggregator(name, infos)
    ELSE (\E ii \in 1..Len(infos) : infos[ii])
             \/ match(IF name = "map" THEN <<"m", "a", "p">>
                      ELSE <<"l", "i", "s", "t">>, a.pattern)

\* proto_info.values[name].values[ii] of a leaf
LeafInfo(name, ii, value, attributes) ==
    [k |-> "leaf",
     at |-> [a \in 1..Len(attributes) |-> LeafOf(attributes[a], name, ii, value)]]

\* attr in proto_info.data finds a property that proto_info.data inherits,
\* and proto_info.data[attr].push is not a function
DataPushThrows(attributes) ==
    \E a \in 1..Len(attributes) : attributes[a].name \in ObjectPrototype

\* proto_info.values[name], given its values: what the second and the third
\* loop over the attributes leave
ListInfoOf(name, elems, attributes, values) ==
    IF \E ii \in 1..Len(values) : values[ii] = Raised THEN Raised
    ELSE LET data == [a \in 1..Len(attributes) |->
                         [ii \in 1..Len(elems) |->
                             IF is_object(elems[ii]) THEN values[ii].total[a]
                             ELSE values[ii].at[a]]]
         IN  [k |-> "info", name |-> name, values |-> values, data |-> data,
              total |-> [a \in 1..Len(attributes) |->
                            AggregateOf(attributes[a], "list", data[a])]]

\* proto_info, given the infos of its fields: the push of the first field's
\* total raises the TypeError; an attribute that proto_info.data inherits is
\* aggregated over the inherited function, which has no elements
MapInfoOf(attributes, values) ==
    IF \E i \in 1..Len(values) : values[i] = Raised THEN Raised
    ELSE IF Len(values) > 0 /\ DataPushThrows(attributes) THEN Raised
    ELSE LET data == [a \in 1..Len(attributes) |->
                         [i \in 1..Len(values) |-> values[i].total[a]]]
         IN  [k |-> "info", values |-> values, data |-> data,
              total |-> [a \in 1..Len(attributes) |->
                            AggregateOf(attributes[a], "map", data[a])]]

RECURSIVE MakeProtoInfo(_, _)

\* the loop over the elements of proto[name]
InfoValuesOf(name, elems, attributes) ==
    [ii \in 1..Len(elems) |->
        IF is_object(elems[ii]) THEN MakeProtoInfo(elems[ii], attributes)
        ELSE LeafInfo(name, ii - 1, elems[ii], attributes)]

\* the for-in loop of make_proto_info
InfoFieldsOf(props, attributes) ==
    [i \in 1..Len(props) |->
        ListInfoOf(props[i].name, Elements(Value(props[i])), attributes,
            InfoValuesOf(props[i].name, Elements(Value(props[i])), attributes))]

\* protoviewer.make_proto_info(proto, attributes): the info, or Raised
MakeProtoInfo(proto, attributes) ==
    MapInfoOf(attributes, InfoFieldsOf(Props(proto), attributes))

(* ------------------------------- heap --------------------------------- *)
(* The transforms once more, on objects and arrays that have an identity:   *)
(* a heap is a sequence of cells, an object {} or an array [] each, and the *)
(* address of a cell is its index.  A property or an element holds a string *)
(* or the reference of a cell, so that two properties can hold the same     *)
(* array and a write through one is seen through the other.  Every write of *)
(* the code (a property assignment, a push) is a write to a cell.           *)

Ref(a) == [k |-> "r", a |-> a]

IsRef(x) == x.k = "r"

\* {} and []: the heap with the new cell, whose address is Len(h) + 1
NewObject(h) == Append(h, [k |-> "o", f |-> <<>>])
NewArray(h) == Append(h, [k |-> "l", l |-> <<>>])

\* obj[name] = x, obj the object at address a
StoreProp(h, a, name, x) ==
    IF HasField(h[a].f, name)
    THEN [h EXCEPT ![a].f[FieldIndex(h[a].f, name)] = [name |-> name, x |-> x]]
    ELSE LET at == InsertAt(h[a].f, name)
         IN  [h EXCEPT ![a].f = SubSeq(@, 1, at - 1) \o <<[name |-> name, x |-> x]>>
                                    \o SubSeq(@, at, Len(@))]

\* arr.push(x), arr the array at address a
PushElem(h, a, x) == [h EXCEPT ![a].l = Append(@, x)]

\* is_object, is_sub_proto of what a property or an element holds
IsObjectIn(h, x) == IsRef(x)
IsSubProtoIn(h, x) == IsRef(x) /\ h[x.a].k = "o"

\* the properties for-in meets in x: the fields of an object, the indices of
\* an array
PropsIn(h, x) ==
    IF h[x.a].k = "o" THEN h[x.a].f
    ELSE [i \in 1..Len(h[x.a].l) |-> [name |-> NumStr(i - 1), x |-> h[x.a].l[i]]]

\* x[0], ..., x[x.length - 1]
ElementsIn(h, x) ==
    IF IsRef(x) THEN (IF h[x.a].k = "l" THEN h[x.a].l ELSE <<>>)
    ELSE IF x.k = "s" THEN [i \in 1..Len(x.s) |-> Str(<<x.s[i]>>)]
    ELSE <<>>

\* what a call leaves: the heap, and the value returned (Raised when a
\* TypeError left the call)
Returns(h, v) == [h |-> h, v |-> v]

\* what a loop carries: the heap, and whether no TypeError was raised
Going(h) == [h |-> h, ok |-> TRUE]
Stopped(h) == [h |-> h, ok |-> FALSE]

\* the value of what x holds in the heap h, as a tree
RECURSIVE ReadTree(_, _)
ReadTree(h, x) ==
    IF ~IsRef(x) THEN x
    ELSE IF h[x.a].k = "o"
    THEN Obj([i \in 1..Len(h[x.a].f) |->
                 Prop(h[x.a].f[i].name, ReadTree(h, h[x.a].f[i].x))])
    ELSE Lst([i \in 1..Len(h[x.a].l) |-> ReadTree(h, h[x.a].l[i])])

(* the tree that parse_proto returned, built in the heap: one object per    *)
(* {} of parse_body, one array per [] of parse_body and parse_list          *)

RECURSIVE BuildTree(_, _)
RECURSIVE BuildFields(_, _, _, _)
RECURSIVE BuildElems(_, _, _, _)

\* r is the built array of a field: result.value[name] = that array
BuildStored(a, name, r) == StoreProp(r.h, a, name, r.v)

\* r is a built element: push it
BuildPushed(a, r) == PushElem(r.h, a, r.v)

BuildFields(h, a, f, k) ==
    IF k > Len(f) THEN Returns(h, Ref(a))
    ELSE BuildFields(BuildStored(a, f[k].name, BuildTree(h, Lst(f[k].vals))),
             a, f, k + 1)

BuildElems(h, a, l, ii) ==
    IF ii > Len(l) THEN Returns(h, Ref(a))
    ELSE BuildElems(BuildPushed(a, BuildTree(h, l[ii])), a, l, ii + 1)

BuildTree(h, v) ==
    IF v.k = "s" THEN Returns(h, v)
    ELSE IF v.k = "o" THEN BuildFields(NewObject(h), Len(h) + 1, v.f, 1)
    ELSE BuildElems(NewArray(h), Len(h) + 1, v.l, 1)

(* filter_proto *)

RECURSIVE filter_proto_in(_, _, _)
RECURSIVE FilterElemsIn(_, _, _, _, _)
RECURSIVE FilterFieldsIn(_, _, _, _, _)

\* new_proto[key].push(r), r what the recursive call returned
FilterPushed(arr, r) == PushElem(r.h, arr, r.v)

\* the inner for loop of filter_proto from the ii-th element of proto[key]
\* on: arr is the address of new_proto[key], x what proto[key] holds
FilterElemsIn(h, arr, x, ii, should_filter_func) ==
    IF ii > Len(ElementsIn(h, x)) THEN h
    ELSE IF IsSubProtoIn(h, ElementsIn(h, x)[ii])
    THEN FilterElemsIn(
             FilterPushed(arr,
                 filter_proto_in(h, ElementsIn(h, x)[ii], should_filter_func)),
             arr, x, ii + 1, should_filter_func)
    ELSE FilterElemsIn(PushElem(h, arr, ElementsIn(h, x)[ii]),
             arr, x, ii + 1, should_filter_func)

\* the for-in loop of filter_proto from the k-th field on, new the address of
\* new_proto
FilterFieldsIn(h, new, props, k, should_filter_func) ==
    IF k > Len(props) THEN Returns(h, Ref(new))
    ELSE IF Apply(should_filter_func, props[k].name)
    THEN FilterFieldsIn(h, new, props, k + 1, should_filter_func)
    ELSE FilterFieldsIn(
             FilterElemsIn(
                 StoreProp(NewArray(h), new, props[k].name, Ref(Len(h) + 1)),
                 Len(h) + 1, props[k].x, 1, should_filter_func),
             new, props, k + 1, should_filter_func)

filter_proto_in(h, proto, should_filter_func) ==
    FilterFieldsIn(NewObject(h), Len(h) + 1, PropsIn(h, proto), 1,
        should_filter_func)

(* proto_slice *)

RECURSIVE proto_slice_in(_, _, _)
RECURSIVE SliceElemsIn(_, _, _, _, _, _)
RECURSIVE SliceFieldsIn(_, _, _, _, _)

\* if (!(key in new_proto)) { new_proto[key] = []; }  new_proto[key].push(x)
SlicePushIn(h, new, key, x) ==
    IF PushThrows(h[new].f, key) THEN Stopped(h)
    ELSE IF ~HasField(h[new].f, key)
    THEN Going(PushElem(StoreProp(NewArray(h), new, key, Ref(Len(h) + 1)),
                   Len(h) + 1, x))
    ELSE Going(PushElem(h, h[new].f[FieldIndex(h[new].f, key)].x.a, x))

\* the push of r, what the recursive call returned
SlicePushed(new, key, r) ==
    IF r.v = Raised THEN Stopped(r.h) ELSE SlicePushIn(r.h, new, key, r.v)

\* the inner for loop of proto_slice from the ii-th element of proto[key] on
SliceElemsIn(m, new, key, x, ii, should_keep_slice_func) ==
    IF ~m.ok \/ ii > Len(ElementsIn(m.h, x)) THEN m
    ELSE IF IsSubProtoIn(m.h, ElementsIn(m.h, x)[ii])
    THEN SliceElemsIn(
             SlicePushed(new, key,
                 proto_slice_in(m.h, ElementsIn(m.h, x)[ii],
                     should_keep_slice_func)),
             new, key, x, ii + 1, should_keep_slice_func)
    ELSE IF ApplyKeep(should_keep_slice_func, key,
                ReadTree(m.h, ElementsIn(m.h, x)[ii]))
    THEN SliceElemsIn(SlicePushIn(m.h, new, key, ElementsIn(m.h, x)[ii]),
             new, key, x, ii + 1, should_keep_slice_func)
    ELSE SliceElemsIn(m, new, key, x, ii + 1, should_keep_slice_func)

\* the for-in loop of proto_slice from the k-th field on
SliceFieldsIn(m, new, props, k, should_keep_slice_func) ==
    IF ~m.ok THEN Returns(m.h, Raised)
    ELSE IF k > Len(props) THEN Returns(m.h, Ref(new))
    ELSE SliceFieldsIn(
             SliceElemsIn(m, new, props[k].name, props[k].x, 1,
                 should_keep_slice_func),
             new, props, k + 1, should_keep_slice_func)

proto_slice_in(h, proto, should_keep_slice_func) ==
    SliceFieldsIn(Going(NewObject(h)), Len(h) + 1, PropsIn(h, proto), 1,
        should_keep_slice_func)

(* convert and convert_list *)

RECURSIVE convert_in(_, _, _)
RECURSIVE convert_list_in(_, _, _)
RECURSIVE ConvertFieldsIn(_, _, _, _, _)
RECURSIVE ConvertElemsIn(_, _, _, _, _)
RECURSIVE SplicePropsIn(_, _, _, _)
RECURSIVE SpliceListIn(_, _, _, _)

\* for (subkey in newlist[ii]) { retval[subkey] = newlist[ii][subkey]; }
SplicePropsIn(h, retval, props, k) ==
    IF k > Len(props) THEN h
    ELSE SplicePropsIn(StoreProp(h, retval, props[k].name, props[k].x),
             retval, props, k + 1)

\* the for loop of convert over newlist, from its ii-th element on
SpliceListIn(h, retval, newlist, ii) ==
    IF ii > Len(ElementsIn(h, newlist)) THEN h
    ELSE SpliceListIn(
             IF IsObjectIn(h, ElementsIn(h, newlist)[ii])
             THEN SplicePropsIn(h, retval,
                      PropsIn(h, ElementsIn(h, newlist)[ii]), 1)
             ELSE h,
             retval, newlist, ii + 1)

\* one iteration of the for-in loop of convert for a key of paths: r is what
\* convert_list(proto[key], paths[key][1]) returned
ConvertMappedIn(retval, to, r) ==
    IF r.v = Raised THEN Stopped(r.h)
    ELSE IF to # nullName THEN Going(StoreProp(r.h, retval, to.s, r.v))
    ELSE Going(SpliceListIn(r.h, retval, r.v, 1))

\* the for-in loop of convert from the k-th property on
ConvertFieldsIn(m, retval, props, k, paths) ==
    IF ~m.ok THEN Returns(m.h, Raised)
    ELSE IF k > Len(props) THEN Returns(m.h, Ref(retval))
    ELSE IF ~paths.defined THEN Returns(m.h, Raised)
    ELSE IF InPaths(paths, props[k].name)
    THEN ConvertFieldsIn(
             ConvertMappedIn(retval, NewName(paths, props[k].name),
                 convert_list_in(m.h, props[k].x, SubPaths(paths, props[k].name))),
             retval, props, k + 1, paths)
    ELSE ConvertFieldsIn(
             Going(StoreProp(m.h, retval, props[k].name, props[k].x)),
             retval, props, k + 1, paths)

convert_in(h, proto, paths) ==
    ConvertFieldsIn(Going(NewObject(h)), Len(h) + 1, PropsIn(h, proto), 1, paths)

\* retval.push(r), r what convert returned
ConvertPushed(retval, r) ==
    IF r.v = Raised THEN Stopped(r.h) ELSE Going(PushElem(r.h, retval, r.v))

\* the for loop of convert_list from the ii-th element on
ConvertElemsIn(m, retval, list, ii, paths) ==
    IF ~m.ok THEN Returns(m.h, Raised)
    ELSE IF ii > Len(ElementsIn(m.h, list)) THEN Returns(m.h, Ref(retval))
    ELSE IF IsObjectIn(m.h, ElementsIn(m.h, list)[ii])
    THEN ConvertElemsIn(
             ConvertPushed(retval,
                 convert_in(m.h, ElementsIn(m.h, list)[ii], paths)),
             retval, list, ii + 1, paths)
    ELSE ConvertElemsIn(Going(PushElem(m.h, retval, ElementsIn(m.h, list)[ii])),
             retval, list, ii + 1, paths)

\* list[ii] = r, r what convert returned
ConvertAssigned(list, ii, r) ==
    IF r.v = Raised THEN Stopped(r.h)
    ELSE Going([r.h EXCEPT ![list.a].l[ii] = r.v])

\* the for loop of a convert_list that converts the elements of list in
\* place
RECURSIVE ConvertElemsInPlace(_, _, _, _)
ConvertElemsInPlace(m, list, ii, paths) ==
    IF ~m.ok THEN Returns(m.h, Raised)
    ELSE IF ii > Len(ElementsIn(m.h, list)) THEN Returns(m.h, list)
    ELSE IF IsObjectIn(m.h, ElementsIn(m.h, list)[ii])
    THEN ConvertElemsInPlace(
             ConvertAssigned(list, ii,
                 convert_in(m.h, ElementsIn(m.h, list)[ii], paths)),
             list, ii + 1, paths)
    ELSE ConvertElemsInPlace(m, list, ii + 1, paths)

\* convert_list without a retval of its own: it returns the list it was
\* given, its objects converted
convert_list_in_InPlace(h, list, paths) ==
    ConvertElemsInPlace(Going(h), list, 1, paths)

convert_list_in(h, list, paths) ==
    ConvertElemsIn(Going(NewArray(h)), Len(h) + 1, list, 1, paths)

(* --------------------------- state machine ---------------------------- *)

NoCall == [fn |-> "none", ii |-> 0, ff |-> NoFilter, brackets |-> FALSE]

NoResult == Result(undefined, 0, null, FALSE)

NoInfo == [values |-> <<>>, data |-> <<>>, total |-> 0]

NoTransform == [fn |-> "none", n |-> 0]

\* no tree is held in the heap
NoHeap ==
    [cells |-> <<>>, T |-> <<>>, root |-> undefined, last |-> undefined,
     fn |-> "none", arg |-> NoFilter, on |-> undefined, out |-> undefined]

\* the field names the model encloses texts in, and filters by
Names == {<<"a">>, <<"b">>}

\* the filter functions of the model: none, or one that drops one name
Filters == {NoFilter} \cup {DropNames({n}) : n \in Names}

Predicates == {DropNames({n}) : n \in Names}

\* the field names the model puts before a text: one that objects inherit
Prefixes == {<<"v","a","l","u","e","O","f">>}

Init ==
    /\ text = <<>>
    /\ pc = "input"
    /\ call = NoCall
    /\ result = NoResult
    /\ pred = NoFilter
    /\ filtered = undefined
    /\ refiltered = undefined
    /\ formatted = <<>>
    /\ reparsed = NoResult
    /\ info = NoInfo
    /\ spaced = <<>>
    /\ tree = undefined
    /\ xf = NoTransform
    /\ heap = NoHeap

\* the user types one more character into the input box
TypeChar(c) ==
    /\ pc = "input"
    /\ Len(text) < MaxLen
    /\ text' = Append(text, c)
    /\ UNCHANGED <<pc, call, result, pred, filtered, refiltered, formatted, reparsed>>
    /\ UNCHANGED <<info, spaced, tree, xf, heap>>

\* the user makes what was typed the value of a field: n {text}
EncloseBraces(n) ==
    /\ pc = "input"
    /\ text' = n \o <<"{">> \o text \o <<"}">>
    /\ pc' = "ready"
    /\ UNCHANGED <<call, result, pred, filtered, refiltered, formatted, reparsed>>
    /\ UNCHANGED <<info, spaced, tree, xf, heap>>

\* the user makes what was typed the list of a field: n:[text]
EncloseList(n) ==
    /\ pc = "input"
    /\ text' = n \o <<":", "[">> \o text \o <<"]">>
    /\ pc' = "ready"
    /\ UNCHANGED <<call, result, pred, filtered, refiltered, formatted, reparsed>>
    /\ UNCHANGED <<info, spaced, tree, xf, heap>>

\* the user puts a field name before what was typed
PrefixName(n) ==
    /\ pc = "input"
    /\ text' = n \o text
    /\ pc' = "ready"
    /\ UNCHANGED <<call, result, pred, filtered, refiltered, formatted, reparsed>>
    /\ UNCHANGED <<info, spaced, tree, xf, heap>>

\* the click handler of the parse button: GLOBAL_PROTO = parse_proto(
\* input.value, 0, filter_func), then draw_proto, which asks for
\* get_depth_info(GLOBAL_PROTO.value), then parsed.value =
\* format(GLOBAL_PROTO.value) (a TypeError ends the handler before any of the
\* assignments)
ParseProto(ff) ==
    /\ pc \in {"input", "ready"}
    /\ call' = [fn |-> "parse_proto", ii |-> 0, ff |-> ff, brackets |-> FALSE]
    /\ result' = parse_proto(text, 0, ff)
    /\ info' = IF result'.thrown THEN info ELSE get_depth_info(result'.value)
    /\ formatted' = IF result'.thrown THEN formatted
                    ELSE format(result'.value, FALSE, <<>>)
    /\ tree' = IF result'.thrown THEN tree ELSE result'.value
    /\ pc' = "parsed"
    /\ UNCHANGED <<text, pred, filtered, refiltered, reparsed>>
    /\ UNCHANGED <<spaced, xf, heap>>

\* protoviewer.filter_proto(result.value, p), of a tree parsed whole
FilterProto(p) ==
    /\ pc = "parsed"
    /\ ~result.thrown
    /\ ~call.ff.defined
    /\ pred' = p
    /\ filtered' = filter_proto(result.value, p)
    /\ pc' = "filtered"
    /\ UNCHANGED <<text, call, result, refiltered, formatted, reparsed>>
    /\ UNCHANGED <<info, spaced, tree, xf, heap>>

\* protoviewer.filter_proto of the filtered tree, with the same function
FilterAgain ==
    /\ pc = "filtered"
    /\ refiltered' = filter_proto(filtered, pred)
    /\ pc' = "refiltered"
    /\ UNCHANGED <<text, call, result, pred, filtered, formatted, reparsed>>
    /\ UNCHANGED <<info, spaced, tree, xf, heap>>

\* protoviewer.parse_proto of the formatted text
Reparse ==
    /\ pc = "parsed"
    /\ ~result.thrown
    /\ ~call.ff.defined
    /\ reparsed' = parse_proto(formatted, 0, NoFilter)
    /\ pc' = "reparsed"
    /\ UNCHANGED <<text, call, result, pred, filtered, refiltered, formatted>>
    /\ UNCHANGED <<info, spaced, tree, xf, heap>>

Next ==
    \/ \E c \in Alphabet : TypeChar(c)
    \/ \E n \in Names : EncloseBraces(n)
    \/ \E n \in Names : EncloseList(n)
    \/ \E n \in Prefixes : PrefixName(n)
    \/ \E ff \in Filters : ParseProto(ff)
    \/ \E p \in Predicates : FilterProto(p)
    \/ FilterAgain
    \/ Reparse

Spec == Init /\ [][Next]_vars

(* direct calls of the parse functions, at any position of the text *)

CallParseProto(ii, ff) ==
    /\ pc \in {"input", "ready"}
    /\ call' = [fn |-> "parse_proto", ii |-> ii, ff |-> ff, brackets |-> FALSE]
    /\ result' = parse_proto(text, ii, ff)
    /\ pc' = "called"
    /\ UNCHANGED <<text, pred, filtered, refiltered, formatted, reparsed>>
    /\ UNCHANGED <<info, spaced, tree, xf, heap>>

CallParseToken(ii, should_include_brackets) ==
    /\ pc \in {"input", "ready"}
    /\ call' = [fn |-> "parse_token", ii |-> ii, ff |-> NoFilter,
                brackets |-> should_include_brackets]
    /\ result' = parse_token(text, ii, should_include_brackets)
    /\ pc' = "called"
    /\ UNCHANGED <<text, pred, filtered, refiltered, formatted, reparsed>>
    /\ UNCHANGED <<info, spaced, tree, xf, heap>>

CallParseString(ii) ==
    /\ pc \in {"input", "ready"}
    /\ call' = [fn |-> "parse_string", ii |-> ii, ff |-> NoFilter, brackets |-> FALSE]
    /\ result' = parse_string(text, ii)
    /\ pc' = "called"
    /\ UNCHANGED <<text, pred, filtered, refiltered, formatted, reparsed>>
    /\ UNCHANGED <<info, spaced, tree, xf, heap>>

\* the characters typed when the parse functions are called directly: also
\* those of escapes and comments
CallAlphabet == Alphabet \cup {"\\", "#", "\n"}

NextCalls ==
    \/ \E c \in CallAlphabet : TypeChar(c)
    \/ \E n \in Prefixes : PrefixName(n)
    \/ \E ii \in 0..Len(text), ff \in Filters : CallParseProto(ii, ff)
    \/ \E ii \in 0..Len(text), b \in BOOLEAN : CallParseToken(ii, b)
    \/ \E ii \in 0..Len(text) : CallParseString(ii)

SpecCalls == Init /\ [][NextCalls]_vars

(* parse_string alone, on longer texts of quotes and escapes *)

MaxStringLen == 5

StringAlphabet == {"\"", "'", "\\", "a", " ", "#", "\n"}

\* the user types one more character of a quoted string
TypeStringChar(c) ==
    /\ pc = "input"
    /\ Len(text) < MaxStringLen
    /\ text' = Append(text, c)
    /\ UNCHANGED <<pc, call, result, pred, filtered, refiltered, formatted, reparsed>>
    /\ UNCHANGED <<info, spaced, tree, xf, heap>>

NextStrings ==
    \/ \E c \in StringAlphabet : TypeStringChar(c)
    \/ \E ii \in 0..Len(text) : CallParseString(ii)

SpecStrings == Init /\ [][NextStrings]_vars

(* the transforms, called one after another on the tree of a pasted text *)

\* longest text put together from items
MaxPasteLen == 16

\* most transforms called one after another
MaxCalls == 2

\* the values of the items the user pastes
ItemValues ==
    { <<"1">>, <<"2">>, <<"{", "}">>, <<"{", "b", ":", "2", "}">>,
      <<"[", "1", " ", "2", "]">> }

\* the user pastes one more item after the text: n:v
PasteItem(n, v) ==
    /\ pc \in {"input", "ready"}
    /\ Len(text) + Len(n) + Len(v) + 2 <= MaxPasteLen
    /\ text' = text \o n \o <<":">> \o v \o <<" ">>
    /\ UNCHANGED <<pc, call, result, pred, filtered, refiltered, formatted, reparsed>>
    /\ UNCHANGED <<info, spaced, tree, xf, heap>>

\* the should_keep_slice_func of the model: keep nothing, keep the leaves of
\* the fields named b, keep the leaves "1"
KeepFuncs ==
    { KeepFunc({}, {}), KeepFunc({<<"b">>}, {}), KeepFunc({}, {Str(<<"1">>)}) }

\* the path tables of the model: a renamed to b, a spliced, and b renamed to
\* a with the a below it spliced
PathTables ==
    { Paths(<<[key |-> <<"a">>, to |-> Str(<<"b">>), sub |-> Paths(<<>>)]>>),
      Paths(<<[key |-> <<"a">>, to |-> nullName, sub |-> Paths(<<>>)]>>),
      Paths(<<[key |-> <<"b">>, to |-> Str(<<"a">>),
               sub |-> Paths(<<[key |-> <<"a">>, to |-> nullName,
                                sub |-> Paths(<<>>)]>>)]>>) }

\* a transform can be called: the page holds a tree
HoldsTree ==
    /\ pc \in {"parsed", "transformed"}
    /\ ~result.thrown
    /\ xf.n < MaxCalls

\* what a transform call leaves: the call, and the tree it returned as the
\* tree the next transform is called on
Transformed(fn, arg, out) ==
    /\ xf' = [fn |-> fn, n |-> xf.n + 1, arg |-> arg, input |-> tree, out |-> out]
    /\ tree' = IF out = Raised THEN tree ELSE out
    /\ pc' = "transformed"
    /\ UNCHANGED <<text, call, result, pred, filtered, refiltered, formatted,
                   reparsed, info, spaced, heap>>

\* protoviewer.filter_proto(tree, p)
CallFilterProto(p) ==
    /\ HoldsTree
    /\ Transformed("filter_proto", p, filter_proto(tree, p))

\* protoviewer.proto_slice(tree, kf)
CallProtoSlice(kf) ==
    /\ HoldsTree
    /\ Transformed("proto_slice", kf, proto_slice(tree, kf))

\* protoviewer.convert(tree, paths)
CallConvert(paths) ==
    /\ HoldsTree
    /\ Transformed("convert", paths, convert(tree, paths))

NextTransforms ==
    \/ \E n \in Names, v \in ItemValues : PasteItem(n, v)
    \/ \E n \in Names : EncloseBraces(n)
    \/ ParseProto(NoFilter)
    \/ \E p \in Predicates : CallFilterProto(p)
    \/ \E kf \in KeepFuncs : CallProtoSlice(kf)
    \/ \E paths \in PathTables : CallConvert(paths)

SpecTransforms == Init /\ [][NextTransforms]_vars

(* parse_proto called with a filter function, on the whole text *)

\* the filter functions of these calls: also one that drops a name that
\* objects inherit
ParseFilters == Predicates \cup {DropNames(Prefixes)}

NextFilter ==
    \/ \E c \in Alphabet : TypeChar(c)
    \/ \E n \in Names : EncloseBraces(n)
    \/ \E n \in Names : EncloseList(n)
    \/ \E n \in Prefixes : PrefixName(n)
    \/ \E ff \in ParseFilters : CallParseProto(0, ff)

SpecFilter == Init /\ [][NextFilter]_vars

(* whitespace and comments put between the tokens of a parsed text *)

\* the characters of these texts: no quotes and no comments, so that every
\* position outside a token lies between two tokens
SpacingAlphabet == {"a", "1", ":", "{", "}", ",", " "}

\* what is put between two tokens: whitespace, or a comment ending in a
\* newline
Spacings == { <<" ">>, <<"\n">>, <<"#", "c", "\n">> }

\* position i of t is not inside a token
BetweenTokens(t, i) ==
    ~(CharAt(t, i - 1) \in VarRegexp /\ CharAt(t, i) \in VarRegexp)

\* the user puts w between two tokens of a text that parsed without error,
\* and parses again
InsertSpacing(i, w) ==
    /\ pc = "parsed"
    /\ ~result.thrown
    /\ result.error = null
    /\ BetweenTokens(text, i)
    /\ spaced' = SubSeq(text, 1, i) \o w \o SubSeq(text, i + 1, Len(text))
    /\ reparsed' = parse_proto(spaced', 0, NoFilter)
    /\ pc' = "spaced"
    /\ UNCHANGED <<text, call, result, pred, filtered, refiltered, formatted>>
    /\ UNCHANGED <<info, tree, xf, heap>>

NextSpacing ==
    \/ \E c \in SpacingAlphabet : TypeChar(c)
    \/ \E n \in Names : EncloseBraces(n)
    \/ ParseProto(NoFilter)
    \/ \E i \in 0..Len(text), w \in Spacings : InsertSpacing(i, w)

SpecSpacing == Init /\ [][NextSpacing]_vars

(* parse_proto on texts of unterminated and unrecognized things *)

\* longest text of these calls
MaxLoopLen == 3

\* the characters of these texts: openers and closers of objects, lists,
\* strings and comments, and a character of no class
LoopAlphabet == {"a", ":", ",", "{", "}", "[", "]", "\"", "#", "@"}

\* the filter functions of these calls
LoopFilters == {NoFilter, DropNames({<<"a">>})}

\* the user types one more character
TypeLoopChar(c) ==
    /\ pc = "input"
    /\ Len(text) < MaxLoopLen
    /\ text' = Append(text, c)
    /\ UNCHANGED <<pc, call, result, pred, filtered, refiltered, formatted, reparsed>>
    /\ UNCHANGED <<info, spaced, tree, xf, heap>>

NextLoops ==
    \/ \E c \in LoopAlphabet : TypeLoopChar(c)
    \/ \E ff \in LoopFilters : CallParseProto(0, ff)

SpecLoops == Init /\ [][NextLoops]_vars

(* the transforms, called one after another on a tree held in the heap *)

\* longest text held in the heap
MaxHeapLen == 9

\* a transform is called while the heap has fewer cells than this
MaxCells == 6

\* the user pastes one more item after a short text: n:v
PasteShort(n, v) ==
    /\ pc \in {"input", "ready"}
    /\ Len(text) + Len(n) + Len(v) + 2 <= MaxHeapLen
    /\ text' = text \o n \o <<":">> \o v \o <<" ">>
    /\ UNCHANGED <<pc, call, result, pred, filtered, refiltered, formatted, reparsed>>
    /\ UNCHANGED <<info, spaced, tree, xf, heap>>

\* the heap after parse_proto returned r: T keeps the cells of the tree as
\* they are now, root is the tree, last what the latest call returned
Held(r) ==
    [cells |-> r.h, T |-> r.h, root |-> r.v, last |-> r.v,
     fn |-> "parse_proto", arg |-> NoFilter, on |-> r.v, out |-> r.v]

\* the click handler of the parse button, the tree it makes built in the heap
ParseIntoHeap ==
    /\ pc \in {"input", "ready"}
    /\ call' = [fn |-> "parse_proto", ii |-> 0, ff |-> NoFilter, brackets |-> FALSE]
    /\ result' = parse_proto(text, 0, NoFilter)
    /\ info' = IF result'.thrown THEN info ELSE get_depth_info(result'.value)
    /\ formatted' = IF result'.thrown THEN formatted
                    ELSE format(result'.value, FALSE, <<>>)
    /\ tree' = IF result'.thrown THEN tree ELSE result'.value
    /\ heap' = IF result'.thrown THEN heap
               ELSE Held(BuildTree(<<>>, result'.value))
    /\ pc' = "parsed"
    /\ UNCHANGED <<text, pred, filtered, refiltered, reparsed, spaced, xf>>

\* a transform can be called on x: the heap holds a tree, and x is the tree
\* or what the latest call returned
CanCall(x) ==
    /\ pc \in {"parsed", "heaped"}
    /\ ~result.thrown
    /\ Len(heap.cells) < MaxCells
    /\ x \in {heap.root, heap.last}

\* the heap after the call fn(x, arg) that left r
AfterCall(fn, arg, x, r) ==
    [cells |-> r.h, T |-> heap.T, root |-> heap.root,
     last |-> IF r.v = Raised THEN heap.last ELSE r.v,
     fn |-> fn, arg |-> arg, on |-> x, out |-> r.v]

\* protoviewer.filter_proto(x, p)
CallFilterProtoIn(x, p) ==
    /\ CanCall(x)
    /\ heap' = AfterCall("filter_proto", p, x, filter_proto_in(heap.cells, x, p))
    /\ pc' = "heaped"
    /\ UNCHANGED <<text, call, result, pred, filtered, refiltered, formatted,
                   reparsed, info, spaced, tree, xf>>

\* protoviewer.proto_slice(x, kf)
CallProtoSliceIn(x, kf) ==
    /\ CanCall(x)
    /\ heap' = AfterCall("proto_slice", kf, x, proto_slice_in(heap.cells, x, kf))
    /\ pc' = "heaped"
    /\ UNCHANGED <<text, call, result, pred, filtered, refiltered, formatted,
                   reparsed, info, spaced, tree, xf>>

\* protoviewer.convert(x, paths)
CallConvertIn(x, paths) ==
    /\ CanCall(x)
    /\ heap' = AfterCall("convert", paths, x, convert_in(heap.cells, x, paths))
    /\ pc' = "heaped"
    /\ UNCHANGED <<text, call, result, pred, filtered, refiltered, formatted,
                   reparsed, info, spaced, tree, xf>>

\* protoviewer.format(x): it reads x and writes to no object
CallFormatIn(x) ==
    /\ CanCall(x)
    /\ formatted' = format(ReadTree(heap.cells, x), FALSE, <<>>)
    /\ heap' = AfterCall("format", NoFilter, x, Returns(heap.cells, heap.last))
    /\ pc' = "heaped"
    /\ UNCHANGED <<text, call, result, pred, filtered, refiltered, reparsed,
                   info, spaced, tree, xf>>

\* protoviewer.make_proto_info(x, attributes), as get_depth_info calls it:
\* it reads x and writes to the info object it makes
CallMakeProtoInfoIn(x) ==
    /\ CanCall(x)
    /\ info' = make_proto_info(ReadTree(heap.cells, x))
    /\ heap' = AfterCall("make_proto_info", NoFilter, x,
                   Returns(heap.cells, heap.last))
    /\ pc' = "heaped"
    /\ UNCHANGED <<text, call, result, pred, filtered, refiltered, formatted,
                   reparsed, spaced, tree, xf>>

\* what a transform can be called on: the tree, and what the latest call
\* returned
Targets == {heap.root, heap.last}

NextHeap ==
    \/ \E n \in Names, v \in ItemValues : PasteShort(n, v)
    \/ ParseIntoHeap
    \/ \E x \in Targets, p \in Predicates : CallFilterProtoIn(x, p)
    \/ \E x \in Targets, kf \in KeepFuncs : CallProtoSliceIn(x, kf)
    \/ \E x \in Targets, paths \in PathTables : CallConvertIn(x, paths)
    \/ \E x \in Targets : CallFormatIn(x)
    \/ \E x \in Targets : CallMakeProtoInfoIn(x)

SpecHeap == Init /\ [][NextHeap]_vars

(* the parse functions called directly, at every position of short texts *)

\* longest text of these calls
MaxPositionLen == 3

\* the characters of these texts: a name, the separators, the openers and
\* closers of objects, lists and strings, and the opener and the closer of a
\* comment, which is whitespace too
PositionAlphabet == {"a", ":", ",", "{", "}", "[", "]", "\"", "#", "\n"}

\* the user types one more character
TypePositionChar(c) ==
    /\ pc = "input"
    /\ Len(text) < MaxPositionLen
    /\ text' = Append(text, c)
    /\ UNCHANGED <<pc, call, result, pred, filtered, refiltered, formatted, reparsed>>
    /\ UNCHANGED <<info, spaced, tree, xf, heap>>

CallParseBody(ii, ff) ==
    /\ pc \in {"input", "ready"}
    /\ call' = [fn |-> "parse_body", ii |-> ii, ff |-> ff, brackets |-> FALSE]
    /\ result' = parse_body(text, ii, ff)
    /\ pc' = "called"
    /\ UNCHANGED <<text, pred, filtered, refiltered, formatted, reparsed>>
    /\ UNCHANGED <<info, spaced, tree, xf, heap>>

CallParseValue(ii, ff) ==
    /\ pc \in {"input", "ready"}
    /\ call' = [fn |-> "parse_value", ii |-> ii, ff |-> ff, brackets |-> FALSE]
    /\ result' = parse_value(text, ii, ff)
    /\ pc' = "called"
    /\ UNCHANGED <<text, pred, filtered, refiltered, formatted, reparsed>>
    /\ UNCHANGED <<info, spaced, tree, xf, heap>>

CallParseList(ii, ff) ==
    /\ pc \in {"input", "ready"}
    /\ call' = [fn |-> "parse_list", ii |-> ii, ff |-> ff, brackets |-> FALSE]
    /\ result' = parse_list(text, ii, ff)
    /\ pc' = "called"
    /\ UNCHANGED <<text, pred, filtered, refiltered, formatted, reparsed>>
    /\ UNCHANGED <<info, spaced, tree, xf, heap>>

\* consume_comments returns a number: the position of the result
CallConsumeComments(ii) ==
    /\ pc \in {"input", "ready"}
    /\ call' = [fn |-> "consume_comments", ii |-> ii, ff |-> NoFilter,
                brackets |-> FALSE]
    /\ result' = Result(undefined, consume_comments(text, ii), null, FALSE)
    /\ pc' = "called"
    /\ UNCHANGED <<text, pred, filtered, refiltered, formatted, reparsed>>
    /\ UNCHANGED <<info, spaced, tree, xf, heap>>

NextPositions ==
    \/ \E c \in PositionAlphabet : TypePositionChar(c)
    \/ \E ii \in 0..Len(text), ff \in LoopFilters : CallParseProto(ii, ff)
    \/ \E ii \in 0..Len(text) : CallParseBody(ii, NoFilter)
    \/ \E ii \in 0..Len(text) : CallParseValue(ii, NoFilter)
    \/ \E ii \in 0..Len(text) : CallParseList(ii, NoFilter)
    \/ \E ii \in 0..Len(text), b \in BOOLEAN : CallParseToken(ii, b)
    \/ \E ii \in 0..Len(text) : CallParseString(ii)
    \/ \E ii \in 0..Len(text) : CallConsumeComments(ii)

SpecPositions == Init /\ [][NextPositions]_vars

(* get_depth_info, called on the tree of a pasted text and on that tree as *)
(* the one element of a field                                              *)

\* {f: [T]}
Wrapped(f, T) == Obj(<<[name |-> f, vals |-> <<T>>]>>)

\* protoviewer.get_depth_info({f: [tree]}), tree what the handler holds
CallGetDepthInfo(f) ==
    /\ pc = "parsed"
    /\ ~result.thrown
    /\ xf' = [fn |-> "get_depth_info", n |-> xf.n + 1, arg |-> f,
              input |-> Wrapped(f, tree), out |-> get_depth_info(Wrapped(f, tree))]
    /\ pc' = "measured"
    /\ UNCHANGED <<text, call, result, pred, filtered, refiltered, formatted,
                   reparsed, info, spaced, tree, heap>>

\* the attributes of get_depth_info and of get_expand_info
DepthAttribute == [name |-> <<"d","e","p","t","h">>, kind |-> "depth", pattern |-> <<>>]
ExpandAttribute(pattern) ==
    [name |-> <<"e","x","p","a","n","d">>, kind |-> "expand", pattern |-> pattern]

\* the attribute sets of the model: those of the two callers, both, and the
\* functions of depth under a name that objects inherit
AttributeSets ==
    { <<DepthAttribute>>, <<ExpandAttribute(<<"1">>)>>, <<ExpandAttribute(<<"b">>)>>,
      <<DepthAttribute, ExpandAttribute(<<"2">>)>>,
      <<[name |-> <<"v","a","l","u","e","O","f">>, kind |-> "depth",
         pattern |-> <<>>]>> }

\* protoviewer.make_proto_info(tree, attributes)
CallMakeProtoInfo(attributes) ==
    /\ pc = "parsed"
    /\ ~result.thrown
    /\ xf' = [fn |-> "make_proto_info", n |-> xf.n + 1, arg |-> attributes,
              input |-> tree, out |-> MakeProtoInfo(tree, attributes)]
    /\ pc' = "measured"
    /\ UNCHANGED <<text, call, result, pred, filtered, refiltered, formatted,
                   reparsed, info, spaced, tree, heap>>

NextInfo ==
    \/ \E n \in Names, v \in ItemValues : PasteItem(n, v)
    \/ \E n \in Names : EncloseBraces(n)
    \/ ParseProto(NoFilter)
    \/ \E f \in Names : CallGetDepthInfo(f)
    \/ \E attributes \in AttributeSets : CallMakeProtoInfo(attributes)

SpecInfo == Init /\ [][NextInfo]_vars

(* ------------------------------ claims -------------------------------- *)

(* The grammar of the format, as a recognizer: tokens are longest runs of   *)
(* their character class, whitespace and comments may stand between any two *)
(* tokens, a comma is a separator only.  Each operator answers the position *)
(* after what it recognized, or -1 when it recognized nothing.              *)

Special == {"#", ":", ";", "{", "}", "\"", "'"}

VarChar(c) == c # "" /\ c \notin Whitespace \cup Special \cup {","}

ValChar(c) == VarChar(c) /\ c \notin {"[", "]"}

RECURSIVE GSkip(_, _)
GSkip(t, i) ==
    IF CharAt(t, i) \in Whitespace THEN GSkip(t, i + 1)
    ELSE IF CharAt(t, i) = "#"
              /\ \E j \in i + 1..Len(t) - 1 : CharAt(t, j) = "\n"
    THEN GSkip(t, 1 + CHOOSE j \in i + 1..Len(t) - 1 :
                      /\ CharAt(t, j) = "\n"
                      /\ \A m \in i + 1..j - 1 : CharAt(t, m) # "\n")
    ELSE i

\* the backslashes that end right before position j of a string begun at i
RECURSIVE BackslashRun(_, _, _)
BackslashRun(t, i, j) ==
    IF j - 1 > i /\ CharAt(t, j - 1) = "\\" THEN 1 + BackslashRun(t, i, j - 1) ELSE 0

\* position j closes the string opened at i
Terminates(t, i, j) ==
    /\ j > i /\ j < Len(t)
    /\ CharAt(t, j) = CharAt(t, i)
    /\ BackslashRun(t, i, j) % 2 = 0

HasTerminator(t, i) == \E j \in i + 1..Len(t) - 1 : Terminates(t, i, j)

\* the first position that closes the string opened at i
Terminator(t, i) ==
    CHOOSE j \in i + 1..Len(t) - 1 :
        Terminates(t, i, j) /\ \A m \in i + 1..j - 1 : ~Terminates(t, i, m)

GString(t, i) == IF HasTerminator(t, i) THEN Terminator(t, i) + 1 ELSE -1

RECURSIVE GRun(_, _, _)
GRun(t, i, brackets) ==
    IF (IF brackets THEN VarChar(CharAt(t, i)) ELSE ValChar(CharAt(t, i)))
    THEN GRun(t, i + 1, brackets) ELSE i

GToken(t, i, brackets) ==
    IF CharAt(t, i) \in Quotes THEN GString(t, i)
    ELSE IF GRun(t, i, brackets) > i THEN GRun(t, i, brackets) ELSE -1

RECURSIVE GProto(_, _)
RECURSIVE GBody(_, _)
RECURSIVE GValue(_, _)
RECURSIVE GListItems(_, _)

GProto(t, i) ==
    LET b == GBody(t, GSkip(t, i + 1))
    IN  IF b # -1 /\ CharAt(t, b) = "}" THEN b + 1 ELSE -1

GBody(t, i) ==
    IF i >= Len(t) \/ CharAt(t, i) = "}" THEN i
    ELSE LET n == GToken(t, i, TRUE)
         IN  IF n = -1 THEN -1
             ELSE LET j == GSkip(t, n)
                      v == GValue(t, IF CharAt(t, j) = ":" THEN GSkip(t, j + 1) ELSE j)
                  IN  IF v = -1 THEN -1
                      ELSE LET m == GSkip(t, v)
                           IN  GBody(t, IF CharAt(t, m) = ","
                                        THEN GSkip(t, m + 1) ELSE m)

GValue(t, i) ==
    IF CharAt(t, i) = "{" THEN GProto(t, i)
    ELSE IF CharAt(t, i) = "[" THEN GListItems(t, GSkip(t, i + 1))
    ELSE GToken(t, i, FALSE)

GListItems(t, i) ==
    IF CharAt(t, i) = "]" THEN i + 1
    ELSE IF i >= Len(t) THEN -1
    ELSE LET v == GValue(t, i)
         IN  IF v = -1 THEN -1
             ELSE LET m == GSkip(t, v)
                  IN  GListItems(t, IF CharAt(t, m) = ","
                                    THEN GSkip(t, m + 1) ELSE m)

\* Root = Proto | Body, the whole text
MatchesGrammar(t) ==
    LET i == GSkip(t, 0)
    IN  IF CharAt(t, i) = "{"
        THEN GProto(t, i) # -1 /\ GSkip(t, GProto(t, i)) = Len(t)
        ELSE GBody(t, i) = Len(t)

\* the page's call: parse_proto(text, 0) with no filter_func
ParsedWhole == pc = "parsed" /\ ~call.ff.defined

\* C1: every text that matches the grammar parses with error == null and
\* position == text.length
C1_GrammarTextsParse ==
    (ParsedWhole /\ MatchesGrammar(text)) =>
        (result.error = null /\ result.position = Len(text))

\* C2: parsing the formatted tree gives back the tree (stated for the trees
\* of texts parsed without error, a part of what the claim covers)
C2_RoundTrip ==
    (pc = "reparsed" /\ result.error = null) => reparsed.value = result.value

\* C3: when any nested production reported an error, the top-level result
\* has error # null
C3_ErrorPropagation ==
    pc = "parsed" => (result.failed => result.error # null)

\* every element of every field of the tree, at any depth below objects, is a
\* string or an object
RECURSIVE NoListElement(_)
NoListElement(v) ==
    \A i \in 1..Len(v.f) : \A j \in 1..Len(v.f[i].vals) :
        LET e == v.f[i].vals[j]
        IN  e.k # "l" /\ (e.k = "o" => NoListElement(e))

\* C4: every element of every field's sequence in a tree returned by
\* parse_proto is a Scalar or an Object, never a list (stated for the trees
\* of texts parsed without error, a part of what the claim covers)
C4_ListsFlattened ==
    (pc = "parsed" /\ result.error = null) => NoListElement(result.value)

\* the call made last is fn
Called(fn) == pc = "called" /\ call.fn = fn

\* C5, as claimed: the value of a terminated string is the characters
\* strictly between the opening quote and the terminating quote
C5_StringWithoutQuotes ==
    (Called("parse_string") /\ CharAt(text, call.ii) \in Quotes
        /\ HasTerminator(text, call.ii)) =>
        result.value = Str(SubSeq(text, call.ii + 2, Terminator(text, call.ii)))

\* C5, amended: the value of a terminated string is the text from the
\* opening quote through the terminating quote, both included, and the error
\* is null
C5_StringKeepsQuotes ==
    (Called("parse_string") /\ CharAt(text, call.ii) \in Quotes
        /\ HasTerminator(text, call.ii)) =>
        /\ result.error = null
        /\ result.value =
               Str(SubSeq(text, call.ii + 1, Terminator(text, call.ii) + 1))

\* parse_string has returned a terminated string that holds an escaped
\* quote
C5_Witness ==
    /\ Called("parse_string")
    /\ CharAt(text, call.ii) \in Quotes
    /\ HasTerminator(text, call.ii)
    /\ \E j \in call.ii + 1..Terminator(text, call.ii) - 1 :
           CharAt(text, j) = CharAt(text, call.ii)
    /\ result.error = null

\* where the body of parse_proto(t, ii) starts
BodyStart(t, ii) ==
    LET i == consume_comments(t, ii)
    IN  IF CharAt(t, i) = "{" THEN i + 1 ELSE i

\* the items the loop of parse_body meets from position ii on, in source
\* order: for each iteration that stored a value, [name, vals] with the one
\* value stored
RECURSIVE Items(_, _)
Items(t, ii) ==
    IF ~BodyCond(t, ii) THEN <<>>
    ELSE LET s == BodyStep(t, ii, <<>>, NoFilter)
         IN  IF s.thrown THEN <<>>
             ELSE s.value.f \o (IF s.brk THEN <<>> ELSE Items(t, s.position))

\* the values of the items named name, in source order
RECURSIVE ValuesOf(_, _)
ValuesOf(items, name) ==
    IF items = <<>> THEN <<>>
    ELSE (IF items[1].name = name THEN items[1].vals ELSE <<>>) \o
         ValuesOf(Tail(items), name)

\* C6: parse_proto without a filter returns, and in the body it parsed the
\* sequence of a name is the values of its occurrences, one element each, in
\* source order
C6_RepeatedFieldsAppend ==
    (Called("parse_proto") /\ ~call.ff.defined) =>
        LET items == Items(text, BodyStart(text, call.ii))
        IN  /\ ~result.thrown
            /\ \A i \in 1..Len(items) :
                /\ HasField(result.value.f, items[i].name)
                /\ GetField(result.value.f, items[i].name) =
                       ValuesOf(items, items[i].name)
            /\ \A i \in 1..Len(result.value.f) :
                \E j \in 1..Len(items) : items[j].name = result.value.f[i].name

MissingBrace == PlainError("Missing Closing Brace")

\* parse_proto(t, ii, ff) consumes an opening brace, its body ends without
\* error, and the character after the body is not the closing brace
Unterminated(t, ii, ff) ==
    /\ CharAt(t, consume_comments(t, ii)) = "{"
    /\ LET body == parse_body(t, BodyStart(t, ii), ff)
       IN  /\ body.error = null
           /\ CharAt(t, consume_comments(t, body.position)) # "}"

\* the positions at which the loop of parse_body starts an iteration
RECURSIVE IterStarts(_, _, _)
IterStarts(t, ii, ff) ==
    IF ~BodyCond(t, ii) THEN {}
    ELSE LET s == BodyStep(t, ii, <<>>, ff)
         IN  {ii} \cup (IF s.brk THEN {} ELSE IterStarts(t, s.position, ff))

\* where the value of the item that starts at position p starts, or -1
\* when its name does not parse
ValueStart(t, p) ==
    LET name == parse_token(t, consume_comments(t, p), TRUE)
        i2 == consume_comments(t, name.position)
    IN  IF name.error # null THEN -1
        ELSE consume_comments(t, IF CharAt(t, i2) = ":" THEN i2 + 1 ELSE i2)

\* the body of the call made last has an item whose value is an
\* unterminated brace
HasUnterminatedField ==
    \E p \in IterStarts(text, BodyStart(text, call.ii), call.ff) :
        /\ ValueStart(text, p) # -1
        /\ CharAt(text, ValueStart(text, p)) = "{"
        /\ Unterminated(text, ValueStart(text, p), call.ff)

\* C7: an unterminated brace returns "Missing Closing Brace", position ==
\* text.length and the body parsed so far; so does the parse of a body one
\* of whose fields has the unterminated brace as its value
C7_MissingClosingBrace ==
    Called("parse_proto") =>
        /\ Unterminated(text, call.ii, call.ff) =>
            /\ result.error = MissingBrace
            /\ result.position = Len(text)
            /\ result.value =
                   parse_body(text, BodyStart(text, call.ii), call.ff).value
        /\ HasUnterminatedField =>
            /\ result.error = MissingBrace
            /\ result.position = Len(text)

\* C8: parse_token, at a character that is no quote and where its character
\* class matches nothing, returns the error "Error parsing token"
C8_EmptyTokenIsError ==
    (Called("parse_token") /\ CharAt(text, call.ii) \notin Quotes
        /\ ScanWhile(text, call.ii,
               IF call.brackets THEN VarRegexp ELSE ValRegexp) = call.ii) =>
        /\ result.error # null
        /\ result.error.msg = "Error parsing token"

\* no field of the tree v, at any depth, has a name that p answers true for
RECURSIVE NoFieldOf(_, _)
NoFieldOf(v, p) ==
    IF v.k = "o"
    THEN \A i \in 1..Len(v.f) :
            /\ ~Apply(p, v.f[i].name)
            /\ \A j \in 1..Len(v.f[i].vals) : NoFieldOf(v.f[i].vals[j], p)
    ELSE IF v.k = "l"
    THEN \A j \in 1..Len(v.l) : NoFieldOf(v.l[j], p)
    ELSE TRUE

\* the names of the fields of f that p answers false for, in order
KeptNames(f, p) ==
    LET keep(x) == ~Apply(p, x.name)
    IN  [i \in 1..Len(SelectSeq(f, keep)) |-> SelectSeq(f, keep)[i].name]

FieldNames(f) == [i \in 1..Len(f) |-> f[i].name]

\* C9: the filtered tree has no field the predicate answers true for, at any
\* depth, and the other fields of the tree keep their order
C9_FilterRemovesAtAnyDepth ==
    pc = "filtered" =>
        /\ NoFieldOf(filtered, pred)
        /\ FieldNames(filtered.f) = KeptNames(result.value.f, pred)

\* C10: filtering a filtered tree again with the same predicate changes
\* nothing
C10_FilterIdempotent ==
    pc = "refiltered" => refiltered = filtered

\* a tree has been filtered twice, and the first filtering removed a field
\* of a sub-object and kept others
C10_Witness ==
    /\ pc = "refiltered"
    /\ filtered # result.value
    /\ Len(filtered.f) > 0
    /\ Len(filtered.f) = Len(result.value.f)

\* every element of every field of the tree v is a string
ScalarsOnly(v) ==
    \A i \in 1..Len(v.f) : \A j \in 1..Len(v.f[i].vals) : v.f[i].vals[j].k = "s"

\* the tree v has one field, which holds one object, which holds only strings
OneNestedObject(v) ==
    /\ Len(v.f) = 1
    /\ Len(v.f[1].vals) = 1
    /\ v.f[1].vals[1].k = "o"
    /\ ScalarsOnly(v.f[1].vals[1])

\* the handler has parsed the text and drawn the tree
Drawn == pc = "parsed" /\ ~result.thrown

\* C11, as claimed: the depth total of a tree whose fields hold only scalars
\* is 0, that of a tree with one field holding one nested object of scalars
\* is 1
C11_DepthBaseCases ==
    Drawn =>
        /\ ScalarsOnly(result.value) => info.total = 0
        /\ OneNestedObject(result.value) => info.total = 1

\* C11, amended: the depth total counts the levels of fields: 0 for a tree
\* without fields, 1 for a tree with fields that hold only scalars; for a tree
\* with one field holding one nested object of scalars, 2 when the nested
\* object has a field and 1 when it has none
C11_DepthCountsLevels ==
    Drawn =>
        /\ ScalarsOnly(result.value) =>
               info.total = (IF Len(result.value.f) = 0 THEN 0 ELSE 1)
        /\ OneNestedObject(result.value) =>
               info.total =
                   (IF Len(result.value.f[1].vals[1].f) = 0 THEN 1 ELSE 2)

\* the depth of a tree with one nested object that holds a scalar has been
\* computed
C11_Witness ==
    /\ Drawn
    /\ OneNestedObject(result.value)
    /\ Len(result.value.f[1].vals[1].f) > 0
    /\ info.total = 2
    /\ info.values[1].data = <<1>>

\* the transform called last is fn, and it returned
Returned(fn) == pc = "transformed" /\ xf.fn = fn /\ xf.out # Raised

\* obj[name], for a field obj has
Field(v, name) == Value(v.f[FieldIndex(v.f, name)])

\* no field of the tree v is without elements, and no element of a field, at
\* any depth below objects, is an object without fields
RECURSIVE NoEmptyObject(_)
NoEmptyObject(v) ==
    \A i \in 1..Len(v.f) :
        LET elems == Elements(Value(v.f[i]))
        IN  /\ Len(elems) > 0
            /\ \A j \in 1..Len(elems) :
                   elems[j].k = "o" =>
                       (Len(elems[j].f) > 0 /\ NoEmptyObject(elems[j]))

\* C12: the tree proto_slice returns has no field without elements and no
\* empty sub-object: an object element is kept only if its slice is non-empty
C12_SliceOmitsEmptyObjects ==
    Returned("proto_slice") => NoEmptyObject(xf.out)

\* C15: every field of the tree that is no key of the path table is in the
\* tree convert returns, under its name and with the sequence it had
C15_ConvertPassThrough ==
    Returned("convert") =>
        \A i \in 1..Len(xf.input.f) :
            ~HasPath(xf.arg, xf.input.f[i].name) =>
                /\ HasField(xf.out.f, xf.input.f[i].name)
                /\ Field(xf.out, xf.input.f[i].name) = Value(xf.input.f[i])

RECURSIVE Flatten(_)
\* the sequences of a sequence, one after another
Flatten(ss) == IF ss = <<>> THEN <<>> ELSE Head(ss) \o Flatten(Tail(ss))

\* the field named key is spliced by the path table
IsSpliced(paths, key) == HasPath(paths, key) /\ PathOf(paths, key).to = nullName

\* the remapped object elements under the spliced fields of the tree v, in
\* order
SplicedObjects(v, paths) ==
    LET isObj(e) == e.k = "o"
    IN  Flatten([i \in 1..Len(v.f) |->
            IF IsSpliced(paths, v.f[i].name)
            THEN SelectSeq(
                     convert_list(Value(v.f[i]), SubPaths(paths, v.f[i].name)).l,
                     isObj)
            ELSE <<>>])

\* the elements the objects objs have under the name s, one after another
ElementsNamed(objs, s) ==
    Flatten([k \in 1..Len(objs) |->
        IF HasField(objs[k].f, s) THEN Elements(Field(objs[k], s)) ELSE <<>>])

\* how often x is an element of seq
Occurrences(seq, x) == Cardinality({i \in 1..Len(seq) : seq[i] = x})

\* C16: every field of every remapped object element under a spliced field is
\* in the tree convert returns, and holds the elements of all the spliced
\* objects that have a field of its name: none is lost
C16_SpliceMergesWithoutLoss ==
    Returned("convert") =>
        LET objs == SplicedObjects(xf.input, xf.arg)
        IN  \A k \in 1..Len(objs) : \A q \in 1..Len(objs[k].f) :
                LET s == objs[k].f[q].name
                    all == ElementsNamed(objs, s)
                IN  /\ HasField(xf.out.f, s)
                    /\ \A m \in 1..Len(all) :
                           Occurrences(Elements(Field(xf.out, s)), all[m]) >=
                               Occurrences(all, all[m])

\* every field at any depth of v holds an array, and the array has an element
RECURSIVE NonEmptySequences(_)
NonEmptySequences(v) ==
    IF v.k = "o"
    THEN \A i \in 1..Len(v.f) :
            /\ "vals" \in DOMAIN v.f[i]
            /\ Len(v.f[i].vals) > 0
            /\ \A j \in 1..Len(v.f[i].vals) : NonEmptySequences(v.f[i].vals[j])
    ELSE IF v.k = "l"
    THEN \A j \in 1..Len(v.l) : NonEmptySequences(v.l[j])
    ELSE TRUE

\* C19: in the tree parse_proto returned, and in every tree filter_proto,
\* proto_slice and convert made of it, every field maps to a non-empty
\* sequence
C19_NonEmptySequences ==
    (pc \in {"parsed", "transformed"} /\ ~result.thrown) => NonEmptySequences(tree)

\* the two calls end alike: both leave with the TypeError, or both return,
\* with the same position and the same error
SameOutcome(r, plain) ==
    /\ r.thrown = plain.thrown
    /\ r.position = plain.position
    /\ r.error = plain.error

\* C13: parse_proto(text, 0, f) returns the same position and the same error
\* as parse_proto(text, 0) without a filter, and its value has no field that f
\* answers true for, at any depth
C13_FilterKeepsPositionAndError ==
    (Called("parse_proto") /\ call.ii = 0 /\ call.ff.defined) =>
        /\ SameOutcome(result, parse_proto(text, 0, NoFilter))
        /\ ~result.thrown => NoFieldOf(result.value, call.ff)

\* C14: whitespace or a comment put between two tokens of a text that parses
\* with error null gives a text that parses with error null to an equal value
C14_SpacingInsignificant ==
    pc = "spaced" =>
        /\ ~reparsed.thrown
        /\ reparsed.error = null
        /\ reparsed.value = result.value

\* the names of the items, each once, in the order of their first appearance
RECURSIVE FirstAppearance(_, _)
FirstAppearance(items, seen) ==
    IF items = <<>> THEN <<>>
    ELSE IF Head(items).name \in seen
         THEN FirstAppearance(Tail(items), seen)
         ELSE <<Head(items).name>>
                  \o FirstAppearance(Tail(items), seen \cup {Head(items).name})

\* the fields of f come in the order of first appearance of the items, each
\* with the values of its items in source order
InsertionOrder(f, items) ==
    /\ FieldNames(f) = FirstAppearance(items, {})
    /\ \A i \in 1..Len(f) : f[i].vals = ValuesOf(items, f[i].name)

\* C18: iterating the fields of the tree returned by parse_proto visits the
\* field names in the order of their first appearance in the text, and each
\* field's sequence is in source order
C18_InsertionOrder ==
    (ParsedWhole /\ ~result.thrown) =>
        InsertionOrder(result.value.f, Items(text, BodyStart(text, 0)))

\* the iteration s of the loop of parse_body, entered at position p, advanced
\* the position or left the loop with an error; when it did not advance and
\* its name was parsed, the error is that of the check of old_ii
BodyProgress(t, p, s) ==
    /\ s.position > p \/ (s.brk /\ s.error # null)
    /\ (~s.thrown /\ s.position = p) =>
           s.error.msg \in {"Internal error!  Infinite loop",
                            "No end of string found: "}

\* the iteration of the loop of parse_list entered at position p, item the
\* element it parsed, advanced the position, or ended the loop there with the
\* error of the check of old_ii
ListProgress(t, p, ff, item) ==
    \/ item.thrown
    \/ item.error # null /\ item.position > p
    \/ item.error = null /\ NextItemAt(t, item.position) > p
    \/ /\ item.error = null
       /\ ListLoop(t, p, <<>>, ff).position = p
       /\ ListLoop(t, p, <<>>, ff).error.msg =
              "Error parsing list, unrecognized character"

OnTree(fn, arg, t) ==
    IF fn = "filter_proto" THEN filter_proto(t, arg)
    ELSE IF fn = "proto_slice" THEN proto_slice(t, arg)
    ELSE convert(t, arg)

\* the transforms on the heap return what the transforms on trees return
HeapAgrees ==
    (pc = "heaped" /\ heap.fn \in {"filter_proto", "proto_slice", "convert"}) =>
        (IF heap.out = Raised THEN Raised ELSE ReadTree(heap.cells, heap.out))
            = OnTree(heap.fn, heap.arg, ReadTree(heap.cells, heap.on))

\* C17: after any sequence of filter_proto, proto_slice, convert, format and
\* make_proto_info calls, on the tree T or on what a call before returned,
\* every object and array of T is what it was before the first call, and T is
\* structurally equal to the tree that was parsed
C17_TransformsPure ==
    pc = "heaped" =>
        /\ \A a \in 1..Len(heap.T) : heap.cells[a] = heap.T[a]
        /\ ReadTree(heap.cells, heap.root) = tree

\* a transform was called on what convert returned, an object one of whose
\* properties holds an array of T itself
C17_Witness ==
    /\ pc = "heaped"
    /\ heap.fn \in {"filter_proto", "proto_slice", "convert"}
    /\ heap.on # heap.root
    /\ heap.out # Raised
    /\ \E i \in 1..Len(heap.cells[heap.on.a].f) :
          /\ IsRef(heap.cells[heap.on.a].f[i].x)
          /\ heap.cells[heap.on.a].f[i].x.a <= Len(heap.T)

\* C21: when parse_proto(text, 0) returns error null, the position it
\* returns is the length of the text
C21_SuccessConsumesAll ==
    (ParsedWhole /\ ~result.thrown /\ result.error = null) =>
        result.position = Len(text)

\* v is what filter_proto makes, with the function ff, of the value that
\* the unfiltered parse plain returned
LatePruned(v, plain, ff) ==
    /\ ~plain.thrown
    /\ v = filter_proto(plain.value, ff)

\* C22: the value of parse_proto(text, 0, f) is structurally equal to
\* filter_proto of the value of parse_proto(text, 0), with the same f
C22_FilterWhileParsing ==
    (Called("parse_proto") /\ call.ii = 0 /\ call.ff.defined /\ ~result.thrown) =>
        LatePruned(result.value, parse_proto(text, 0, NoFilter), call.ff)

\* every field name and every string of the tree v, at any depth, is
\* non-empty
RECURSIVE NoEmptyString(_)
NoEmptyString(v) ==
    IF v.k = "s" THEN v.s # <<>>
    ELSE IF v.k = "l" THEN \A j \in 1..Len(v.l) : NoEmptyString(v.l[j])
    ELSE \A i \in 1..Len(v.f) :
            /\ v.f[i].name # <<>>
            /\ \A j \in 1..Len(v.f[i].vals) : NoEmptyString(v.f[i].vals[j])

\* C23: in a tree that parse_proto returned with error null, every field
\* name and every scalar is a non-empty string
C23_NoEmptyNamesOrScalars ==
    (ParsedWhole /\ ~result.thrown /\ result.error = null) =>
        NoEmptyString(result.value)

\* the six functions that return a value, a position and an error
ParseFunctions ==
    {"parse_proto", "parse_body", "parse_value", "parse_list", "parse_token",
     "parse_string"}

InComment(t, p, k) ==
    \E h \in p..k :
        /\ CharAt(t, h) = "#"
        /\ \A j \in h..(k - 1) : CharAt(t, j) # "\n"

\* C25: consume_comments(text, p) returns q with p <= q <= text.length, q at
\* the end of the text or at a character that is neither whitespace nor "#",
\* and every character of [p, q) is whitespace or in a comment that runs from
\* a "#" through the next newline, or to the end of a text that has none
C25_CommentsConsumed ==
    Called("consume_comments") =>
        /\ call.ii <= result.position
        /\ result.position <= Len(text)
        /\ \/ result.position = Len(text)
           \/ CharAt(text, result.position) \notin Whitespace \cup {"#"}
        /\ \A k \in call.ii..(result.position - 1) :
              CharAt(text, k) \in Whitespace \/ InComment(text, call.ii, k)

\* a comment that reaches the end of the text without a newline
C25_Witness ==
    /\ Called("consume_comments")
    /\ call.ii < Len(text)
    /\ result.position = Len(text)
    /\ \E h \in call.ii..(Len(text) - 1) :
          /\ CharAt(text, h) = "#"
          /\ \A j \in h..(Len(text) - 1) : CharAt(text, j) # "\n"

\* q is where the whitespace and the comments that start at p end
SpacingEnds(t, p, q) ==
    /\ p <= q /\ q <= Len(t)
    /\ q = Len(t) \/ CharAt(t, q) \notin Whitespace \cup {"#"}
    /\ \A k \in p..(q - 1) : CharAt(t, k) \in Whitespace \/ InComment(t, p, k)

\* C26: parse_string called at an opening quote c ends the string at the
\* first later c that an even number of backslashes precedes, and returns
\* error null, the position after that c and the whitespace and comments
\* that follow it, and the text from the opening quote through that c as
\* written; without such a c it returns "No end of string found" and the
\* position text.length, with the rest of the text as written
C26_StringTermination ==
    (Called("parse_string") /\ CharAt(text, call.ii) \in Quotes) =>
        IF HasTerminator(text, call.ii)
        THEN /\ result.error = null
             /\ SpacingEnds(text, Terminator(text, call.ii) + 1, result.position)
             /\ result.value =
                    Str(SubSeq(text, call.ii + 1, Terminator(text, call.ii) + 1))
        ELSE /\ result.error = ErrorAt("No end of string found: ", call.ii)
             /\ result.position = Len(text)
             /\ result.value = Str(SubSeq(text, call.ii + 1, Len(text)))

\* a string with an escaped quote and an escaped backslash or other character
\* before its terminator, and whitespace or a comment after it
C26_Witness ==
    /\ Called("parse_string")
    /\ CharAt(text, call.ii) \in Quotes
    /\ HasTerminator(text, call.ii)
    /\ \E j \in call.ii + 1..Terminator(text, call.ii) - 1 :
           /\ CharAt(text, j) = CharAt(text, call.ii)
           /\ BackslashRun(text, call.ii, j) % 2 = 1
    /\ result.position > Terminator(text, call.ii) + 1
    /\ result.error = null

\* a text whose only later quote is escaped: no end of string
C26_WitnessUnterminated ==
    /\ Called("parse_string")
    /\ CharAt(text, call.ii) \in Quotes
    /\ ~HasTerminator(text, call.ii)
    /\ \E j \in call.ii + 1..Len(text) - 1 : CharAt(text, j) = CharAt(text, call.ii)
    /\ result.error # null

RECURSIVE ListWalk(_, _, _, _)

\* the walk after the element item, parsed at position ii
WalkItem(t, ii, ff, l, item) ==
    IF item.thrown THEN [how |-> "thrown", at |-> ii, l |-> l]
    ELSE IF item.error # null THEN [how |-> "error", at |-> item.position, l |-> l]
    ELSE IF NextItemAt(t, item.position) = ii
    THEN [how |-> "stall", at |-> ii, l |-> Append(l, item.value)]
    ELSE ListWalk(t, NextItemAt(t, item.position), ff, Append(l, item.value))

\* how the elements of a list that start at position ii end: at the end of
\* the text, at a "]", at an element with an error (at: the position that
\* element returned), at an element that consumed nothing, or in a TypeError;
\* l the values of the elements without error
ListWalk(t, ii, ff, l) ==
    IF Len(t) <= ii THEN [how |-> "end", at |-> ii, l |-> l]
    ELSE IF CharAt(t, ii) = "]" THEN [how |-> "close", at |-> ii, l |-> l]
    ELSE WalkItem(t, ii, ff, l, parse_value(t, ii, ff))

\* the result r of parse_list is what C27 says of the walk w
AsWalked(t, w, r) ==
    /\ w.how = "end" =>
           /\ r.error = PlainError("No end of list found: ")
           /\ r.position = Len(t)
           /\ r.value = Lst(w.l)
    /\ w.how = "error" =>
           /\ ~r.thrown
           /\ r.position = w.at
           /\ r.value = Lst(w.l)

\* C27: parse_list called at "[": when every element parses without error
\* and the end of the text is reached with no "]", it returns "No end of list
\* found", the position text.length and the elements parsed; when an element
\* has an error it returns at once, with the position that element returned
\* and the elements before it
C27_UnterminatedList ==
    (Called("parse_list") /\ CharAt(text, call.ii) = "[") =>
        AsWalked(text,
            ListWalk(text, consume_comments(text, call.ii + 1), call.ff, <<>>),
            result)

\* w is a walk of two elements or more that reached the end of the text
LongWalkToEnd(w) == w.how = "end" /\ Len(w.l) >= 2

\* a list of two elements or more that the end of the text cuts short
C27_Witness ==
    /\ Called("parse_list")
    /\ CharAt(text, call.ii) = "["
    /\ LongWalkToEnd(
           ListWalk(text, consume_comments(text, call.ii + 1), call.ff, <<>>))
    /\ result.error # null

\* w is a walk that an element with an error ended, after another element
ErrorAfterElement(w) == w.how = "error" /\ Len(w.l) >= 1

\* a list whose second element has an error
C27_WitnessElementError ==
    /\ Called("parse_list")
    /\ CharAt(text, call.ii) = "["
    /\ ErrorAfterElement(
           ListWalk(text, consume_comments(text, call.ii + 1), call.ff, <<>>))

\* the largest number of the non-empty set S
MaxOf(S) == CHOOSE m \in S : \A n \in S : n <= m

RECURSIVE Levels(_)
\* the levels of fields of a tree without list elements: 0 without fields,
\* else 1 more than the most levels of any element of any field, a string
\* having none
Levels(v) ==
    IF v.k # "o" \/ Len(v.f) = 0 THEN 0
    ELSE 1 + MaxOf({0} \cup
                 UNION { { Levels(v.f[i].vals[j]) : j \in 1..Len(v.f[i].vals) } :
                             i \in 1..Len(v.f) })

\* what the element e gives to the depth of the field that holds it: the
\* depth total of its own tree, nothing for a string
ElementTotal(e) == IF is_object(e) THEN get_depth_info(e).total ELSE 0

\* the most that any element of any field of the tree v gives
DeepestElement(v) ==
    MaxOf({0} \cup
        UNION { { ElementTotal(v.f[i].vals[j]) : j \in 1..Len(v.f[i].vals) } :
                    i \in 1..Len(v.f) })

\* C28: get_depth_info({f: [T]}).total.depth is get_depth_info(T).total.depth
\* + 1, and the depth total of a tree is what its deepest element gives, one
\* level more than that element's own total, however many elements its
\* fields hold
C28_DepthPerLevel ==
    (pc = "measured" /\ xf.fn = "get_depth_info") =>
        /\ xf.out.total = info.total + 1
        /\ info.total =
               (IF Len(tree.f) = 0 THEN 0 ELSE 1 + DeepestElement(tree))
        /\ NoListElement(tree) =>
               /\ info.total = Levels(tree)
               /\ xf.out.total = Levels(xf.input)

\* the depth of a tree in which a field holds two elements, the first deeper
\* than the second, and of that tree as the element of a field
C28_Witness ==
    /\ pc = "measured"
    /\ xf.fn = "get_depth_info"
    /\ NoListElement(tree)
    /\ \E i \in 1..Len(tree.f) :
           /\ Len(tree.f[i].vals) >= 2
           /\ Levels(tree.f[i].vals[1]) > Levels(tree.f[i].vals[2])
    /\ info.total >= 2
    /\ xf.out.total = info.total + 1

RECURSIVE Aligned(_, _, _)

\* the info of the field p, whose elements are elems, is as C29 says
AlignedField(p, elems, fi, attributes) ==
    /\ fi.name = p.name
    /\ Len(fi.values) = Len(elems)
    /\ Len(fi.data) = Len(attributes)
    /\ Len(fi.total) = Len(attributes)
    /\ \A a \in 1..Len(attributes) :
           /\ Len(fi.data[a]) = Len(elems)
           /\ \A ii \in 1..Len(elems) :
                  /\ elems[ii].k = "s" =>
                         fi.data[a][ii] =
                             LeafOf(attributes[a], p.name, ii - 1, elems[ii])
                  /\ elems[ii].k = "o" =>
                         fi.data[a][ii] = fi.values[ii].total[a]
    /\ \A ii \in 1..Len(elems) :
           elems[ii].k = "o" => Aligned(elems[ii], fi.values[ii], attributes)

\* the info i of the tree v is as C29 says, at v and at every object below it
Aligned(v, i, attributes) ==
    /\ i.k = "info"
    /\ Len(i.values) = Len(v.f)
    /\ Len(i.data) = Len(attributes)
    /\ Len(i.total) = Len(attributes)
    /\ \A a \in 1..Len(attributes) :
           /\ Len(i.data[a]) = Len(v.f)
           /\ \A n \in 1..Len(v.f) : i.data[a][n] = i.values[n].total[a]
    /\ \A n \in 1..Len(v.f) :
           AlignedField(v.f[n], v.f[n].vals, i.values[n], attributes)

\* C29: for every tree and every attribute set, make_proto_info returns an
\* info in which every field has one entry of values and of data[attr] for
\* each element of its sequence, the entry of data[attr] being what
\* leaf_function gives for a string and the total[attr] of the child's info
\* for an object, the node's data[attr] has one entry for each field in the
\* order of the fields, and total[attr] is defined at every node
C29_InfoAligned ==
    (pc = "measured" /\ xf.fn = "make_proto_info") =>
        Aligned(xf.input, xf.out, xf.arg)

RECURSIVE Chained(_, _)
\* the sequences of the sequence ss, one after another
Chained(ss, k) == IF k > Len(ss) THEN <<>> ELSE ss[k] \o Chained(ss, k + 1)

RECURSIVE LeavesOf(_, _)
\* the strings at and below the element e of a field reached by the chain
\* of field names path, each with its chain, in the order of the text; the
\* items of a list are elements of the field that holds the list
LeavesOf(e, path) ==
    IF e.k = "s" THEN <<[path |-> path, val |-> e]>>
    ELSE IF e.k = "l"
    THEN Chained([j \in 1..Len(e.l) |-> LeavesOf(e.l[j], path)], 1)
    ELSE Chained([i \in 1..Len(e.f) |->
                     Chained([j \in 1..Len(e.f[i].vals) |->
                                 LeavesOf(e.f[i].vals[j], Append(path, e.f[i].name))],
                             1)], 1)

\* the leaves of the sequence leaves that have the chain path
Under(leaves, path) ==
    LET has(x) == x.path = path IN SelectSeq(leaves, has)

\* the leaves of the sequence leaves that kf keeps
Kept(leaves, kf) ==
    LET keeps(x) == ApplyKeep(kf, x.path[Len(x.path)], x.val)
    IN  SelectSeq(leaves, keeps)

\* the chains of the leaves of the sequence leaves
Chains(leaves) == { leaves[i].path : i \in 1..Len(leaves) }

\* out holds, chain by chain and in their order, the leaves of T that kf
\* keeps, and no other leaf
SlicedTo(T, kf, out) ==
    /\ \A i \in 1..Len(out) : ApplyKeep(kf, out[i].path[Len(out[i].path)], out[i].val)
    /\ \A path \in Chains(T) \cup Chains(out) :
           Under(out, path) = Under(Kept(T, kf), path)

\* C30: every string under a field n of proto_slice(T, keep), at any depth,
\* satisfies keep(n, string), and every string of T that satisfies keep is in
\* the result under the same chain of fields, those of one chain in the
\* order they have in T
C30_SliceKeepsLeaves ==
    (pc = "transformed" /\ xf.fn = "proto_slice" /\ xf.n = 1 /\ xf.out # Raised) =>
        SlicedTo(LeavesOf(xf.input, <<>>), xf.arg, LeavesOf(xf.out, <<>>))

====
